---- MODULE Spec2Model ----
(***************************************************************************)
(* Contact Energy usage service: the usage store (app/db/repositories.py), *)
(* the sync / adaptive backfill loops (app/services/usage_service.py) and  *)
(* the sync orchestrator with its running flag and background task        *)
(* (app/services/sync.py, app/routes/sync.py).                             *)
(*                                                                         *)
(* Every task (the background loop, one HTTP request) is a coroutine on    *)
(* one asyncio event loop: an action is the code a task runs between two   *)
(* suspension points (a database await, an upstream call, a sleep).        *)
(***************************************************************************)
EXTENDS Integers, Sequences, FiniteSets, Bags, TLC

\* ------------------------------------------------------------------ bounds
MonthLen == 2          \* days in a month of the model's calendar
HoursPerDay == 2       \* hourly records upstream returns for a day with data
MaxUpserts == 3        \* upsert_usage calls of one run of the store specification
MaxDaysBack == 2       \* largest days_back of a regular sync
MaxMonths == 1         \* largest include_months of a sync
MaxBackfillDays == 4   \* largest configured backfill_max_days
MaxThreshold == 2      \* largest configured backfill_empty_days_threshold
MaxFaults == 1         \* failures (storage, upstream, payload) of one run
MaxTriggers == 2       \* sync triggers (requests, background syncs) of one run
BackfillMonths == 1    \* include_months of the backfill triggers (12 in sync.py)
MaxPayloadLen == 3     \* longest list payload of the upstream client

\* range(0, 8) of the search for the latest available day
SearchDays == 8

\* ---------------------------------------------------------------- calendar
\* date.today(): one fixed day; dates are day ordinals.
Today == 20

MonthOf(d) == d \div MonthLen
DayOfMonth(d) == d % MonthLen

\* Stored text of a timestamp and the LIKE patterns: a text is a sequence of
\* fields, "prefix%" matches the texts that start with the prefix.
isoformat(ts) == <<MonthOf(ts[1]), DayOfMonth(ts[1]), ts[2]>>
strftime_Ymd(d) == <<MonthOf(d), DayOfMonth(d)>>
strftime_Ym(d) == <<MonthOf(d)>>
\* A comparison of the whole text with the pattern, without the wildcard.
LikeExact(text, prefix) == text = prefix

Like(text, prefix) ==
    /\ Len(prefix) <= Len(text)
    /\ \A k \in 1..Len(prefix) : text[k] = prefix[k]

\* Midnight of a day: the timestamp of a daily record.
Midnight(d) == <<d, 0>>

\* ------------------------------------------------------------- usage store
None == {}
Some(x) == {x}

Contracts == {"c1", "c2"}
Intervals == {"hourly", "daily"}

\* The measured fields of a usage record.
Measured(value, unit, dollar, offpeak, offpeak_dollar, uncharged) ==
    [value |-> value, unit |-> unit, dollar_value |-> dollar,
     offpeak_value |-> offpeak, offpeak_dollar_value |-> offpeak_dollar,
     uncharged_value |-> uncharged]

UsageRow(contract_id, text, interval, m) ==
    [contract_id |-> contract_id, date |-> text, interval |-> interval,
     value |-> m.value, unit |-> m.unit, dollar_value |-> m.dollar_value,
     offpeak_value |-> m.offpeak_value,
     offpeak_dollar_value |-> m.offpeak_dollar_value,
     uncharged_value |-> m.uncharged_value]

MeasuredOf(row) ==
    Measured(row.value, row.unit, row.dollar_value, row.offpeak_value,
             row.offpeak_dollar_value, row.uncharged_value)

KeyOf(row) == <<row.contract_id, row.date, row.interval>>

\* usage_data is a bag of rows: the table itself does not merge two equal rows,
\* only the UNIQUE constraint and ON CONFLICT do.
RowsWithKey(table, key) == {r \in BagToSet(table) : KeyOf(r) = key}
CountKey(table, key) ==
    LET rs == RowsWithKey(table, key)
        RECURSIVE Sum(_)
        Sum(S) == IF S = {} THEN 0
                  ELSE LET r == CHOOSE x \in S : TRUE
                       IN CopiesIn(r, table) + Sum(S \ {r})
    IN Sum(rs)

\* ON CONFLICT DO UPDATE that keeps a stored optional field when the new value
\* is null.
UpsertKeepNulls(table, row) ==
    LET old == RowsWithKey(table, KeyOf(row))
        keep(o, f) == IF row[f] = None THEN o[f] ELSE row[f]
        merged(o) == [row EXCEPT !.dollar_value = keep(o, "dollar_value"),
                                 !.offpeak_value = keep(o, "offpeak_value"),
                                 !.offpeak_dollar_value = keep(o, "offpeak_dollar_value"),
                                 !.uncharged_value = keep(o, "uncharged_value")]
    IN IF old = {} THEN table (+) SetToBag({row})
       ELSE LET o == CHOOSE x \in old : TRUE
            IN (table (-) SetToBag({o})) (+) SetToBag({merged(o)})

\* INSERT ... ON CONFLICT(contract_id, date, interval) DO UPDATE SET <every
\* measured field> = excluded.<field>
UpsertRow(table, row) ==
    LET old == RowsWithKey(table, KeyOf(row))
    IN IF old = {} THEN table (+) SetToBag({row})
       ELSE LET o == CHOOSE x \in old : TRUE
            IN (table (-) SetToBag({o})) (+) SetToBag({row})

\* INSERT OR IGNORE: a stored row is left as it is.
InsertIfAbsent(table, contract_id, ts, interval, m) ==
    LET row == [contract_id |-> contract_id, date |-> <<ts[1] \div MonthLen, ts[1] % MonthLen, ts[2]>>,
                interval |-> interval,
                value |-> m.value, unit |-> m.unit, dollar_value |-> m.dollar_value,
                offpeak_value |-> m.offpeak_value,
                offpeak_dollar_value |-> m.offpeak_dollar_value,
                uncharged_value |-> m.uncharged_value]
    IN IF \E r \in BagToSet(table) :
              <<r.contract_id, r.date, r.interval>> = <<contract_id, row.date, interval>>
       THEN table
       ELSE table (+) SetToBag({row})

\* UsageRepository.upsert_usage: the timestamp is stored as date.isoformat().
upsert_usage(table, contract_id, ts, interval, m) ==
    UpsertRow(table, UsageRow(contract_id, isoformat(ts), interval, m))

\* UsageRepository.has_data_for_date: COUNT(*) > 0 of the rows of the contract
\* and interval whose date text is LIKE 'YYYY-MM-DD%'.
has_data_for_date(table, contract_id, target_date, interval) ==
    \E r \in BagToSet(table) :
        /\ r.contract_id = contract_id
        /\ Like(r.date, strftime_Ymd(target_date))
        /\ r.interval = interval

\* UsageRepository.has_data_for_month: daily rows LIKE 'YYYY-MM%'.
has_data_for_month(table, contract_id, month) ==
    \E r \in BagToSet(table) :
        /\ r.contract_id = contract_id
        /\ Like(r.date, month)
        /\ r.interval = "daily"

\* --------------------------------------------------------------- upstream
\* What one record of the upstream client carries.
UpstreamSample == Measured(2, "kWh", Some(1), None, None, None)

\* The raw result of api.get_hourly_usage(date): a list of HoursPerDay
\* records, an empty result, or an exception / timeout.
UpstreamPayloads == {"records", "empty", "fail"}

\* ContactApiWrapper.get_hourly_usage: the normalised list of the hours of
\* `date`. Every exception of the client is caught and becomes [].
api_get_hourly_usage(payload, date) ==
    IF payload = "fail" THEN <<>>
    ELSE IF payload = "empty" THEN <<>>
    ELSE [h \in 1..HoursPerDay |-> [date |-> <<date, h - 1>>, m |-> UpstreamSample]]

\* datetime.strptime(month, "%Y-%m").date(): the first day of the month.
strptime_Ym(month) == month[1] * MonthLen

\* ContactApiWrapper.get_monthly_usage(start_date, end_date): the daily
\* records of start_date..end_date, [] for anything else.
api_get_monthly_usage(payload, start_date, end_date) ==
    IF payload = "records"
    THEN [k \in 1..(end_date - start_date + 1) |->
            [date |-> Midnight(start_date + k - 1), m |-> UpstreamSample]]
    ELSE <<>>

\* What the upstream client hands back: None, a string, a number, or a list
\* whose entries are usage datums, strings, or objects that do not convert.
NoPayload == [kind |-> "none"]

\* No call under study has returned.
NotCalled == [fn |-> "none"]

\* A datum of the client library: date, value, unit and the optional fields.
Datum(d) == [kind |-> "datum", date |-> <<d, 0>>, m |-> UpstreamSample]

\* if not usage_data
falsy(p) ==
    \/ p.kind = "none"
    \/ p.kind = "str" /\ p.len = 0
    \/ p.kind = "int" /\ p.n = 0
    \/ p.kind = "list" /\ p.items = <<>>

\* _convert_usage_datum raises for an entry that is no datum: an object
\* without the attributes (AttributeError), a datum whose value is None
\* (ValidationError of UsageData).
convert_raises(datum) == datum.kind # "datum"

\* _convert_usage_datum: the UsageData of a datum.
convert_usage_datum(datum) == [date |-> datum.date, m |-> datum.m]

\* A loop body whose conversion error leaves the wrapper.
ConvertUnguarded(acc, datum) ==
    IF acc.raised THEN acc
    ELSE IF datum.kind = "str" THEN acc
    ELSE IF convert_raises(datum) THEN [acc EXCEPT !.raised = TRUE]
    ELSE [acc EXCEPT !.result = Append(acc.result, convert_usage_datum(datum))]

\* One pass of `for datum in usage_data`: a string is skipped, a datum that
\* does not convert is skipped (except Exception: continue), the rest appended.
convert_or_skip(acc, datum) ==
    IF datum.kind = "str" THEN acc
    ELSE IF convert_raises(datum) THEN acc
    ELSE [acc EXCEPT !.result = Append(acc.result, convert_usage_datum(datum))]

RECURSIVE convert_all(_, _)
convert_all(items, n) ==
    IF n = 0 THEN [raised |-> FALSE, result |-> <<>>]
    ELSE convert_or_skip(convert_all(items, n - 1), items[n])

\* get_hourly_usage / get_monthly_usage after the client returned usage_data
\* (the two bodies are the same from here).
normalize(p) ==
    IF falsy(p) THEN [raised |-> FALSE, result |-> <<>>]
    ELSE IF p.kind = "str" THEN [raised |-> FALSE, result |-> <<>>]
    ELSE IF p.kind # "list" THEN [raised |-> FALSE, result |-> <<>>]
    ELSE convert_all(p.items, Len(p.items))

\* The upserts of a fetch, in order: the first n records of hours are stored.
RECURSIVE StoreRecords(_, _, _, _, _)
StoreRecords(table, contract_id, interval, records, n) ==
    IF n = 0 THEN table
    ELSE upsert_usage(StoreRecords(table, contract_id, interval, records, n - 1),
                      contract_id, records[n].date, interval, records[n].m)

\* ------------------------------------------------------------------- state
Requests == {"r1"}
Background == {"bg"}
Tasks == Background \cup Requests

VARIABLES
    _sync_running,       \* sync.py: module-level running flag
    _sync_task,          \* sync.py: the registered background task, or "none"
    _backfill_progress,  \* sync.py: contract -> progress entry
    usage_data,          \* the usage_data table
    cache,               \* the process-wide TTL cache: key -> value
    settings,            \* the Settings the process was started with
    task,                \* per task: position and locals of its coroutine
    written,             \* history: key -> the measured fields of its upserts, in order
    nupserts,            \* history: number of upsert_usage calls of the store run
    faults,              \* history: failures injected so far (storage, upstream)
    upstream_accounts,   \* the contracts upstream discovers, in order
    triggers,            \* history: sync triggers so far (requests, loop syncs)
    api_payload,         \* what upstream holds or handed to the wrapper
    returned             \* the call under study and what it returned

vars == <<_sync_running, _sync_task, _backfill_progress, usage_data, cache,
          settings, task, written, nupserts, faults, upstream_accounts, triggers,
          api_payload, returned>>

\* The shared state and the tasks as one value, for the code between two
\* suspension points, which runs without interleaving.
St == [running |-> _sync_running, sync_task |-> _sync_task,
       progress |-> _backfill_progress, table |-> usage_data,
       cache |-> cache, task |-> task]

Apply(s) ==
    /\ _sync_running' = s.running
    /\ _sync_task' = s.sync_task
    /\ _backfill_progress' = s.progress
    /\ usage_data' = s.table
    /\ cache' = s.cache
    /\ task' = s.task

EmptyMap == [x \in {} |-> x]
MapSet(f, k, v) == [x \in DOMAIN f \cup {k} |-> IF x = k THEN v ELSE f[x]]
MapDel(f, k) == [x \in DOMAIN f \ {k} |-> f[x]]

\* The stats dictionary of sync_contract_data / sync_contract_data_adaptive.
NewStats(contract_id) ==
    [contract_id |-> contract_id, hourly_days_synced |-> 0,
     hourly_days_skipped |-> 0, hourly_days_empty |-> 0, months_synced |-> 0,
     months_skipped |-> 0, oldest_data_date |-> None, errors |-> <<>>]

\* A task that is not running: a request that has not arrived, the
\* background task before start_background_sync.
IdleTask ==
    [pc |-> "idle", route |-> "none", in_run_sync |-> FALSE, adaptive |-> FALSE,
     force |-> FALSE, days |-> 0, months |-> 0, start_date |-> 0,
     clist |-> <<>>, ci |-> 0, i |-> 0, j |-> 0, consecutive_empty |-> 0,
     stats |-> NewStats("none"), results |-> <<>>, response |-> "none",
     cancel_requested |-> FALSE, cancelled_at |-> "none", ended |-> "none",
     \* history of the current per-contract pass
     outcomes |-> <<>>, hourly_calls |-> {}, month_calls |-> {},
     last_event |-> "none", ncalls |-> 0, stopped_at |-> None, last_payload |-> "none",
     nraised |-> 0,
     \* history: the list handed to the notification sink by the current run
     notified |-> None]

SetLoc(s, t, l) == [s EXCEPT !.task[t] = l]

AccountsKey == <<"accounts">>

\* ------------------------------------------------- progress map (sync.py)
\* A map rebuilt around the one entry: _backfill_progress = {contract_id: ...}
ReplaceProgress(progress, contract_id, entry) ==
    MapSet(EmptyMap, contract_id, entry)

update_backfill_progress(progress, contract_id, entry) ==
    MapSet(progress, contract_id, entry)

clear_backfill_progress(progress) == EmptyMap

ProgressEntry(days_processed, current_date, synced, empty, oldest, status) ==
    [days_processed |-> days_processed, current_date |-> current_date,
     hourly_synced |-> synced, hourly_empty |-> empty,
     oldest_data_date |-> oldest, status |-> status]

\* ------------------------------------------------------ settings (config.py)
\* A day cap that is taken as configured, also when it is not positive.
ConfiguredMaxDays(cfg) == cfg.backfill_max_days

\* max_days = settings.backfill_max_days if settings.backfill_max_days > 0 else 730
max_days_of(cfg) == IF cfg.backfill_max_days > 0 THEN cfg.backfill_max_days ELSE 730

\* --------------------------------------------------------- dates of a pass
Contract(l) == l.clist[l.ci]

\* A loop that asks for the start date every time.
AlwaysStartDate(l) == l.start_date

\* target_date = start_date - timedelta(days=days_ago); the regular sync
\* starts from today.
TargetDate(l) == l.start_date - l.i

FirstOfMonth(d) == d - DayOfMonth(d)

\* for _ in range(months_ago): month_date = (month_date - 1 day).replace(day=1)
RECURSIVE GoBackMonths(_, _)
GoBackMonths(month_date, n) ==
    IF n = 0 THEN month_date
    ELSE GoBackMonths(FirstOfMonth(month_date - 1), n - 1)

\* month_str of the month loop.
MonthStr(months_ago) ==
    IF months_ago = 0 THEN strftime_Ym(Today)
    ELSE strftime_Ym(GoBackMonths(FirstOfMonth(Today), months_ago))

\* The last day of the month that starts at start_date (next_month - 1 day).
EndOfMonth(start_date) == (MonthOf(start_date) + 1) * MonthLen - 1

HourlyKey(contract_id, d) == <<"hourly", contract_id, strftime_Ymd(d)>>
MonthlyKey(contract_id, month) == <<"monthly", contract_id, month, month>>

\* ------------------------------------------- leaving a sync (sync.py, routes)
\* A loop that a failed or rejected sync ends: the exception leaves
\* _background_sync_loop.
LoopEndsOnFailure(s, t, results) ==
    LET l == s.task[t]
    IN IF l.route = "background"
       THEN SetLoc(s, t, [IdleTask EXCEPT
                             !.pc = IF l.ended \in {"exception", "rejected"}
                                    THEN "returned" ELSE "interval",
                             !.route = l.route, !.ended = l.ended])
       ELSE SetLoc(s, t, [l EXCEPT !.pc = "done", !.response = "completed",
                                   !.results = results])

\* The code after a sync returned to what called it: the background loop
\* drops the results and goes to its interval sleep, a route answers
\* "completed".
ReturnToCaller(s, t, results) ==
    LET l == s.task[t]
    IN IF l.route = "background"
       THEN SetLoc(s, t, [IdleTask EXCEPT !.pc = "interval", !.route = l.route,
                                          !.ended = l.ended])
       ELSE SetLoc(s, t, [l EXCEPT !.pc = "done", !.response = "completed",
                                   !.results = results])

\* A finally block that is skipped when the body raised.
FinallyOnlyOnReturn(running, how) == IF how = "exception" THEN running ELSE FALSE

\* _run_sync, finally: _sync_running = False, however the body ended.
run_sync_finally(running, how) == FALSE

\* _run_sync from the end of its try block: return results, or the except
\* branch (return []), then the finally block.
RunSyncReturn(s, t, results, how) ==
    LET l == s.task[t]
        s1 == [s EXCEPT !.running = run_sync_finally(s.running, how)]
    IN ReturnToCaller(
           SetLoc(s1, t, [l EXCEPT !.in_run_sync = FALSE, !.ended = how]),
           t, results)

\* A notification for every contract of the results.
EveryContract(results) == results

\* _notify_ha_of_update: the results that have synced anything.
UpdatedContracts(results) ==
    SelectSeq(results, LAMBDA r : r.hourly_days_synced > 0 \/ r.months_synced > 0)

\* updated_contracts: their contract ids.
ContractIds(results) == [k \in 1..Len(results) |-> results[k].contract_id]

HasErrors(results) == \E k \in 1..Len(results) : results[k].errors # <<>>

\* _run_sync after sync_all_contracts[_adaptive] returned results.
BodyDone(s, t) ==
    LET l == s.task[t]
    IN IF l.results # <<>> /\ settings.ha_configured
          /\ UpdatedContracts(l.results) # <<>>
       THEN SetLoc(s, t, [l EXCEPT !.pc = "notify",
                                   !.notified = Some(ContractIds(UpdatedContracts(l.results)))])
       ELSE RunSyncReturn(s, t, l.results,
                          IF HasErrors(l.results) THEN "errors" ELSE "results")

\* ------------------- sync_contract_data / sync_contract_data_adaptive loops
\* History: an exception was raised inside the try block of the current item.
Raised(s, t) == SetLoc(s, t, [s.task[t] EXCEPT !.nraised = s.task[t].nraised + 1])

\* get_accounts of the fetch helpers: the accounts are cached from then on.
CacheAccounts(s) ==
    IF AccountsKey \in DOMAIN s.cache THEN s
    ELSE [s EXCEPT !.cache = MapSet(s.cache, AccountsKey, upstream_accounts)]

\* A list that grows at its head.
PrependStats(results, stats) == <<stats>> \o results

\* results.append(stats) of sync_all_contracts[_adaptive].
results_append(results, stats) == Append(results, stats)

RECURSIVE BeginContract(_, _, _)

\* The end of a per-contract sync: the final progress update of the adaptive
\* backfill, `return stats`, and what the caller does with it (the next
\* contract of sync_all_contracts[_adaptive], or the route's answer).
FinishContract(s, t) ==
    LET l == s.task[t]
        st == l.stats
        final == ProgressEntry(
                     st.hourly_days_synced + st.hourly_days_skipped + st.hourly_days_empty,
                     None, st.hourly_days_synced, st.hourly_days_empty,
                     st.oldest_data_date, "completed")
        s1 == IF l.adaptive
              THEN [s EXCEPT !.progress =
                        update_backfill_progress(s.progress, Contract(l), final)]
              ELSE s
        s2 == SetLoc(s1, t, [l EXCEPT !.results = results_append(l.results, st)])
    IN IF ~l.in_run_sync THEN ReturnToCaller(s2, t, <<st>>)
       ELSE IF l.ci < Len(l.clist) THEN BeginContract(s2, t, l.ci + 1)
       ELSE BodyDone(s2, t)

\* cache.delete(cache_key) and _fetch_month_from_api up to its upstream call.
IssueMonthly(s, t) ==
    LET l == s.task[t]
    IN [SetLoc(s, t, [l EXCEPT !.pc = "m_fetch"])
            EXCEPT !.cache = MapDel(s.cache, MonthlyKey(Contract(l), MonthStr(l.j)))]

\* Top of `for months_ago in range(include_months)`.
EnterMonthly(s, t) ==
    LET l == s.task[t]
    IN IF l.j >= l.months THEN FinishContract(s, t)
       ELSE IF ~l.force THEN SetLoc(s, t, [l EXCEPT !.pc = "m_check"])
       ELSE IssueMonthly(s, t)

\* cache.delete(cache_key) and _fetch_hourly_from_api up to its upstream call.
IssueHourly(s, t) ==
    LET l == s.task[t]
    IN [SetLoc(s, t, [l EXCEPT !.pc = "h_fetch"])
            EXCEPT !.cache = MapDel(s.cache, HourlyKey(Contract(l), TargetDate(l)))]

\* Top of `for days_ago in range(...)`: the adaptive backfill writes its
\* progress entry, then the has_data_for_date check unless force.
EnterHourly(s, t) ==
    LET l == s.task[t]
        entry == ProgressEntry(l.i, Some(TargetDate(l)), l.stats.hourly_days_synced,
                               l.stats.hourly_days_empty, None, "in_progress")
        s1 == IF l.adaptive
              THEN [s EXCEPT !.progress =
                        update_backfill_progress(s.progress, Contract(l), entry)]
              ELSE s
    IN IF l.i >= l.days THEN EnterMonthly(s, t)
       ELSE IF ~l.force THEN SetLoc(s1, t, [l EXCEPT !.pc = "h_check"])
       ELSE IssueHourly(s1, t)

\* The first lines of sync_contract_data[_adaptive] for contract clist[ci].
BeginContract(s, t, ci) ==
    LET l == s.task[t]
    IN EnterHourly(
           SetLoc(s, t, [l EXCEPT !.ci = ci, !.i = 0, !.j = 0,
                                  !.consecutive_empty = 0,
                                  !.stats = NewStats(l.clist[ci]),
                                  !.outcomes = <<>>, !.hourly_calls = {},
                                  !.month_calls = {}, !.last_event = "none",
                                  !.ncalls = 0, !.stopped_at = None,
                                  !.last_payload = "none", !.nraised = 0]),
           t)

\* An exception that ends the whole pass instead of the one item.
RaiseOutOfLoop(s, t) ==
    LET l == s.task[t]
    IN SetLoc(s, t, [l EXCEPT !.pc = "done", !.response = "raised"])

\* An except branch that goes on to the next day without an error entry.
ErrorNotRecorded(s, t) ==
    LET l == s.task[t]
    IN EnterHourly(
           SetLoc(s, t, [l EXCEPT !.outcomes = Append(l.outcomes, "error"),
                                  !.i = l.i + 1]),
           t)

\* except Exception as e: stats["errors"].append(...), and on to the next day.
HourlyError(s, t) ==
    LET l == s.task[t]
    IN EnterHourly(
           SetLoc(s, t, [l EXCEPT
               !.stats.errors = Append(l.stats.errors, <<"Hourly", TargetDate(l)>>),
               !.outcomes = Append(l.outcomes, "error"),
               !.i = l.i + 1]),
           t)

\* has_data_for_date returned (or raised): the skip branch, or the fetch.
HourlyChecked(s, t, raised) ==
    LET l == s.task[t]
    IN IF raised THEN HourlyError(Raised(s, t), t)
       ELSE IF has_data_for_date(s.table, Contract(l), TargetDate(l), "hourly")
       THEN EnterHourly(
                SetLoc(s, t, [l EXCEPT
                    !.stats.hourly_days_skipped = l.stats.hourly_days_skipped + 1,
                    !.consecutive_empty = 0,
                    !.outcomes = Append(l.outcomes, "skip"),
                    !.i = l.i + 1]),
                t)
       ELSE IssueHourly(s, t)

\* if consecutive_empty >= empty_days_threshold: break
StopsAfterThreshold(consecutive_empty, threshold) == consecutive_empty > threshold
should_stop(consecutive_empty, threshold) == consecutive_empty >= threshold

\* if api_delay > 0: await asyncio.sleep(api_delay), then the next day.
AfterHourlyItem(s, t) ==
    LET l == s.task[t]
    IN IF l.adaptive /\ settings.backfill_api_delay > 0
       THEN SetLoc(s, t, [l EXCEPT !.pc = "h_delay"])
       ELSE EnterHourly(SetLoc(s, t, [l EXCEPT !.i = l.i + 1]), t)

\* An assignment that keeps the first date it was given.
KeepsFirstDate(oldest, target_date) ==
    IF oldest = None THEN Some(target_date) ELSE oldest

\* stats["oldest_data_date"] = target_date.isoformat()
oldest_data_date(oldest, target_date) == Some(target_date)

\* The upstream hourly call returned `payload`; _fetch_hourly_from_api stores
\* the normalised hours (raised: upsert number stored + 1 raised), and the
\* loop body counts the day.
HourlyFetched(s, t, payload, raised, stored) ==
    LET l == s.task[t]
        d == TargetDate(l)
        hours == api_get_hourly_usage(payload, d)
        n == IF raised THEN stored ELSE Len(hours)
        s1 == [CacheAccounts(s) EXCEPT
                  !.table = StoreRecords(s.table, Contract(l), "hourly", hours, n)]
        l1 == [l EXCEPT !.hourly_calls = l.hourly_calls \cup {d},
                        !.ncalls = l.ncalls + 1,
                        !.last_event = "call",
                        !.last_payload = payload]
        synced == [l1 EXCEPT
                      !.stats.hourly_days_synced = l.stats.hourly_days_synced + 1,
                      !.stats.oldest_data_date =
                          IF l.adaptive THEN oldest_data_date(l.stats.oldest_data_date, d)
                          ELSE l.stats.oldest_data_date,
                      !.consecutive_empty = 0,
                      !.outcomes = Append(l.outcomes, "data")]
        empty == [l1 EXCEPT
                      !.stats.hourly_days_empty = l.stats.hourly_days_empty + 1,
                      !.consecutive_empty = l.consecutive_empty + 1,
                      !.outcomes = Append(l.outcomes, "empty")]
    IN IF raised THEN HourlyError(Raised(SetLoc(s1, t, l1), t), t)
       ELSE IF hours # <<>> THEN AfterHourlyItem(SetLoc(s1, t, synced), t)
       ELSE IF ~l.adaptive
       THEN AfterHourlyItem(SetLoc(s1, t, [l1 EXCEPT !.outcomes = Append(l.outcomes, "empty")]), t)
       ELSE IF should_stop(empty.consecutive_empty, settings.backfill_empty_days_threshold)
       THEN EnterMonthly(SetLoc(s1, t, [empty EXCEPT !.stopped_at = Some(d)]), t)
       ELSE AfterHourlyItem(SetLoc(s1, t, empty), t)

\* asyncio.sleep(api_delay) of the hourly loop returned.
HourlyDelayed(s, t) ==
    LET l == s.task[t]
    IN EnterHourly(SetLoc(s, t, [l EXCEPT !.last_event = "delay", !.i = l.i + 1]), t)

\* except Exception as e: stats["errors"].append(...), and on to the next month.
MonthlyError(s, t) ==
    LET l == s.task[t]
    IN EnterMonthly(
           SetLoc(s, t, [l EXCEPT
               !.stats.errors = Append(l.stats.errors, <<"Monthly", MonthStr(l.j)>>),
               !.j = l.j + 1]),
           t)

\* has_data_for_month returned (or raised): the skip branch, or the fetch.
MonthlyChecked(s, t, raised) ==
    LET l == s.task[t]
    IN IF raised THEN MonthlyError(Raised(s, t), t)
       ELSE IF has_data_for_month(s.table, Contract(l), MonthStr(l.j))
       THEN EnterMonthly(
                SetLoc(s, t, [l EXCEPT
                    !.stats.months_skipped = l.stats.months_skipped + 1,
                    !.j = l.j + 1]),
                t)
       ELSE IssueMonthly(s, t)

\* Rate limiting for monthly fetches too, then the next month.
AfterMonthlyItem(s, t) ==
    LET l == s.task[t]
    IN IF l.adaptive /\ settings.backfill_api_delay > 0
       THEN SetLoc(s, t, [l EXCEPT !.pc = "m_delay"])
       ELSE EnterMonthly(SetLoc(s, t, [l EXCEPT !.j = l.j + 1]), t)

\* The upstream range call returned; _fetch_month_from_api stores the daily
\* records and returns the aggregate, None when there are no records.
MonthlyFetched(s, t, payload, raised, stored) ==
    LET l == s.task[t]
        start == strptime_Ym(MonthStr(l.j))
        usage == api_get_monthly_usage(payload, start, EndOfMonth(start))
        n == IF raised THEN stored ELSE Len(usage)
        s1 == [CacheAccounts(s) EXCEPT
                  !.table = StoreRecords(s.table, Contract(l), "daily", usage, n)]
        l1 == [l EXCEPT !.month_calls = l.month_calls \cup {MonthStr(l.j)},
                        !.ncalls = l.ncalls + 1,
                        !.last_event = "call",
                        !.last_payload = payload]
        synced == [l1 EXCEPT !.stats.months_synced = l.stats.months_synced + 1]
    IN IF raised THEN MonthlyError(Raised(SetLoc(s1, t, l1), t), t)
       ELSE IF usage # <<>> THEN AfterMonthlyItem(SetLoc(s1, t, synced), t)
       ELSE AfterMonthlyItem(SetLoc(s1, t, l1), t)

\* asyncio.sleep(api_delay) of the month loop returned.
MonthlyDelayed(s, t) ==
    LET l == s.task[t]
    IN EnterMonthly(SetLoc(s, t, [l EXCEPT !.last_event = "delay", !.j = l.j + 1]), t)

\* ------------------------------------ sync_all_contracts[_adaptive], _run_sync
\* for account in accounts: for contract in account.contracts: ...
WithAccounts(s, t, accounts) ==
    LET l == s.task[t]
        s1 == SetLoc(s, t, [l EXCEPT !.clist = accounts, !.results = <<>>])
    IN IF accounts = <<>> THEN BodyDone(s1, t) ELSE BeginContract(s1, t, 1)

\* sync_all_contracts[_adaptive] up to get_accounts: the adaptive one clears
\* the progress map first; get_accounts answers from the cache when it can.
SyncAllEnter(s, t) ==
    LET l == s.task[t]
        s1 == IF l.adaptive
              THEN [s EXCEPT !.progress = clear_backfill_progress(s.progress)]
              ELSE s
    IN IF AccountsKey \in DOMAIN s1.cache
       THEN WithAccounts(s1, t, s1.cache[AccountsKey])
       ELSE SetLoc(s1, t, [l EXCEPT !.pc = "accounts"])

\* get_accounts returned from upstream (cached from now on), or raised: the
\* exception leaves sync_all_contracts and _run_sync returns [].
AccountsFetched(s, t, raised) ==
    IF raised THEN RunSyncReturn(s, t, <<>>, "exception")
    ELSE WithAccounts([s EXCEPT !.cache = MapSet(s.cache, AccountsKey, upstream_accounts)],
                      t, upstream_accounts)

SyncParams(days_back, include_months, force, adaptive) ==
    [days_back |-> days_back, include_months |-> include_months,
     force |-> force, adaptive |-> adaptive]

\* _run_sync: `if _sync_running: return []`, else set the flag and run the
\* body. The adaptive body walks back from today - 5 for max_days days.
run_sync(s, t, p) ==
    LET l == s.task[t]
    IN IF s.running
       THEN ReturnToCaller(SetLoc(s, t, [l EXCEPT !.ended = "rejected"]), t, <<>>)
       ELSE SyncAllEnter(
                SetLoc([s EXCEPT !.running = TRUE], t,
                       [l EXCEPT !.in_run_sync = TRUE, !.ended = "none",
                                 !.adaptive = p.adaptive, !.force = p.force,
                                 !.days = IF p.adaptive THEN max_days_of(settings)
                                          ELSE p.days_back,
                                 !.months = p.include_months,
                                 !.start_date = IF p.adaptive THEN Today - 5 ELSE Today]),
                t)

\* ---------------------------------------------------- routes (routes/sync.py)
Answer(s, t, response) ==
    SetLoc(s, t, [s.task[t] EXCEPT !.pc = "done", !.response = response])

SetRoute(s, t, route) == SetLoc(s, t, [s.task[t] EXCEPT !.route = route])

\* POST /sync
trigger_sync_all(s, t, days_back, months, force) ==
    IF s.running THEN Answer(SetRoute(s, t, "sync_all"), t, "already_running")
    ELSE run_sync(SetRoute(s, t, "sync_all"), t,
                  SyncParams(days_back, months, force, FALSE))

\* POST /sync/{contract_id}
trigger_sync_contract(s, t, contract_id, days_back, months, force) ==
    LET l == s.task[t]
    IN BeginContract(
           SetLoc(s, t, [l EXCEPT !.route = "sync_contract", !.in_run_sync = FALSE,
                                  !.adaptive = FALSE, !.force = force,
                                  !.days = days_back, !.months = months,
                                  !.start_date = Today, !.clist = <<contract_id>>,
                                  !.results = <<>>]),
           t, 1)

\* POST /sync/backfill
trigger_backfill_all(s, t, adaptive) ==
    IF s.running THEN Answer(SetRoute(s, t, "backfill_all"), t, "already_running")
    ELSE run_sync(SetRoute(s, t, "backfill_all"), t,
                  IF adaptive THEN SyncParams(0, BackfillMonths, FALSE, TRUE)
                  ELSE SyncParams(IF settings.backfill_max_days > 0
                                  THEN settings.backfill_max_days ELSE 365,
                                  BackfillMonths, FALSE, FALSE))

\* A start_date query parameter: absent, a date, or a string that
\* date.fromisoformat rejects.
StartDate(kind, d) == [kind |-> kind, d |-> d]

\* POST /sync/backfill/adaptive: trigger_adaptive_backfill takes no
\* start_date parameter, so the call raises TypeError.
trigger_adaptive_backfill_all(s, t, start_date) ==
    IF s.running THEN Answer(SetRoute(s, t, "adaptive_all"), t, "already_running")
    ELSE IF start_date.kind = "invalid"
    THEN Answer(SetRoute(s, t, "adaptive_all"), t, "error")
    ELSE Answer(SetRoute(s, t, "adaptive_all"), t, "raised")

\* POST /sync/{contract_id}/backfill/adaptive
trigger_adaptive_backfill_contract(s, t, contract_id, force, start_date) ==
    LET l == s.task[t]
    IN IF s.running
       THEN Answer(SetRoute(s, t, "adaptive_contract"), t, "already_running")
       ELSE IF start_date.kind = "invalid"
       THEN Answer(SetRoute(s, t, "adaptive_contract"), t, "error")
       ELSE BeginContract(
                SetLoc(s, t, [l EXCEPT !.route = "adaptive_contract",
                                       !.in_run_sync = FALSE, !.adaptive = TRUE,
                                       !.force = force,
                                       !.days = max_days_of(settings),
                                       !.months = BackfillMonths,
                                       !.start_date = IF start_date.kind = "date"
                                                      THEN start_date.d ELSE Today - 5,
                                       !.clist = <<contract_id>>, !.results = <<>>]),
                t, 1)

\* ------------------------------------------------ background loop (sync.py)
\* A check that looks at the hourly rows only.
HasHourlyRows(table, contract_id) ==
    \E r \in BagToSet(table) : r.contract_id = contract_id /\ r.interval = "hourly"

\* get_data_stats has an "hourly" or a "daily" entry for the contract.
HasRows(table, contract_id) ==
    \E r \in BagToSet(table) :
        r.contract_id = contract_id /\ r.interval \in {"hourly", "daily"}

\* _check_needs_backfill: some discovered contract has neither hourly nor
\* daily rows; False when anything raised.
check_needs_backfill(table, raised) ==
    /\ ~raised
    /\ \E k \in 1..Len(upstream_accounts) : ~HasRows(table, upstream_accounts[k])

\* _background_sync_loop after _check_needs_backfill: the initial sync.
InitialSync(s, t, raised) ==
    LET s1 == IF raised THEN s
              ELSE [s EXCEPT !.cache = MapSet(s.cache, AccountsKey, upstream_accounts)]
    IN IF check_needs_backfill(s.table, raised)
       THEN run_sync(s1, t, SyncParams(0, BackfillMonths, FALSE, TRUE))
       ELSE run_sync(s1, t, SyncParams(settings.regular_sync_days,
                                       settings.regular_sync_months, FALSE, FALSE))

\* while True: await asyncio.sleep(interval * 60); await _run_sync(...)
IntervalSync(s, t) ==
    run_sync(s, t, SyncParams(settings.regular_sync_days,
                              settings.regular_sync_months, FALSE, FALSE))

\* start_background_sync
start_background_sync(s, t) ==
    IF s.sync_task # "none" THEN s
    ELSE [SetLoc(s, t, [IdleTask EXCEPT !.pc = "warmup", !.route = "background"])
              EXCEPT !.sync_task = t]

\* stop_background_sync: _sync_task.cancel(); _sync_task = None
stop_background_sync(s) ==
    IF s.sync_task = "none" THEN s
    ELSE [SetLoc(s, s.sync_task,
                 [s.task[s.sync_task] EXCEPT !.cancel_requested = TRUE])
              EXCEPT !.sync_task = "none"]

\* A cancellation that runs no finally block.
CancelKeepsFlag(running, in_run_sync) == running

\* CancelledError raised at the task's suspension point: it is no Exception,
\* so no except clause catches it, and the finally block of _run_sync runs
\* when the task is inside its try block.
cancelled_flag(running, in_run_sync) == IF in_run_sync THEN FALSE ELSE running

Cancelled(s, t) ==
    LET l == s.task[t]
    IN [SetLoc(s, t, [l EXCEPT !.pc = "cancelled", !.cancelled_at = l.pc,
                               !.in_run_sync = FALSE,
                               !.ended = IF l.in_run_sync THEN "cancelled" ELSE l.ended])
            EXCEPT !.running = cancelled_flag(s.running, l.in_run_sync)]

\* ------------------------------------------ read paths (repositories, service)
\* datetime.fromisoformat(text): the timestamp of a stored text.
fromisoformat(text) == <<text[1] * MonthLen + text[2], text[3]>>

\* Order of two stored texts, as SQLite compares TEXT (field by field).
TextLess(a, b) ==
    \/ a[1] < b[1]
    \/ a[1] = b[1] /\ a[2] < b[2]
    \/ a[1] = b[1] /\ a[2] = b[2] /\ a[3] < b[3]

\* WHERE contract_id = ? AND date LIKE ? AND interval = ?
SelectRows(table, contract_id, prefix, interval) ==
    {r \in BagToSet(table) :
        r.contract_id = contract_id /\ Like(r.date, prefix) /\ r.interval = interval}

\* COUNT(*) and SUM(value) of selected rows of the table.
RECURSIVE CountRows(_, _)
CountRows(table, rows) ==
    IF rows = {} THEN 0
    ELSE LET r == CHOOSE x \in rows : TRUE
         IN CopiesIn(r, table) + CountRows(table, rows \ {r})

RECURSIVE SumValue(_, _)
SumValue(table, rows) ==
    IF rows = {} THEN 0
    ELSE LET r == CHOOSE x \in rows : TRUE
         IN r.value * CopiesIn(r, table) + SumValue(table, rows \ {r})

\* MIN(date) / MAX(date) of selected rows.
MinDate(rows) == CHOOSE a \in {r.date : r \in rows} :
                     \A b \in {r.date : r \in rows} : ~TextLess(b, a)
MaxDate(rows) == CHOOSE a \in {r.date : r \in rows} :
                     \A b \in {r.date : r \in rows} : ~TextLess(a, b)

\* UsageRepository.get_daily_total_from_db: the hourly rows of the day summed
\* into one UsageData, None when there is no such row.
get_daily_total_from_db(table, contract_id, target_date) ==
    LET rows == SelectRows(table, contract_id, strftime_Ymd(target_date), "hourly")
    IN IF CountRows(table, rows) = 0 THEN None
       ELSE Some([date |-> fromisoformat(MinDate(rows)),
                  value |-> SumValue(table, rows)])

\* UsageRepository.get_hourly_data_for_date: the hourly rows of the day,
\* ORDER BY date ASC.
RECURSIVE OrderByDate(_)
OrderByDate(rows) ==
    IF rows = {} THEN <<>>
    ELSE LET first == CHOOSE r \in rows : r.date = MinDate(rows)
         IN <<[date |-> fromisoformat(first.date), value |-> first.value]>>
            \o OrderByDate(rows \ {first})

get_hourly_data_for_date(table, contract_id, target_date) ==
    OrderByDate(SelectRows(table, contract_id, strftime_Ymd(target_date), "hourly"))

\* total_value / days as an exact fraction.
Ratio(num, den) == [num |-> num, den |-> den]

\* An average over the calendar days of the month.
AverageOverCalendar(total, days) == Ratio(total, MonthLen)

\* daily_average = total_value / days if days > 0 else 0
daily_average(total, days) == IF days > 0 THEN Ratio(total, days) ELSE Ratio(0, 1)

MonthlyAggregate(month, value, days) ==
    [month |-> month, value |-> value, daily_average |-> daily_average(value, days),
     days_with_data |-> days]

\* UsageRepository.get_monthly_aggregate_from_db: SUM and COUNT of the daily
\* rows LIKE 'YYYY-MM%', None when there is none.
get_monthly_aggregate_from_db(table, contract_id, month) ==
    LET rows == SelectRows(table, contract_id, month, "daily")
        days == CountRows(table, rows)
    IN IF days = 0 THEN None
       ELSE Some(MonthlyAggregate(month, SumValue(table, rows), days))

\* UsageRepository.get_latest_data_date: the day of MAX(date) of the rows of
\* the contract and interval.
get_latest_data_date(table, contract_id, interval) ==
    LET rows == {r \in BagToSet(table) :
                    r.contract_id = contract_id /\ r.interval = interval}
    IN IF rows = {} THEN None ELSE Some(fromisoformat(MaxDate(rows))[1])

\* What upstream holds for the reads: the days it has hourly records for and
\* the last day it has a daily record for.
Upstream(hourly_days, last_daily) == [hourly |-> hourly_days, last_daily |-> last_daily]

RECURSIVE SumSeq(_, _)
SumSeq(records, n) == IF n = 0 THEN 0 ELSE records[n].value + SumSeq(records, n - 1)

AsUsageData(records) == [k \in 1..Len(records) |->
                            [date |-> records[k].date, value |-> records[k].m.value]]

\* F of the value of v, with v evaluated once.
With(v, F(_)) == CHOOSE y \in {F(x) : x \in {v}} : TRUE

\* One step of a read may raise: `at` names the step ("none" for no failure)
\* and `stored` is the number of records upsert_usage wrote before it raised.
ReadFault(at, stored) == [at |-> at, stored |-> stored]
NoFault == ReadFault("none", 0)

\* The exception a failing step raises: the store raises sqlite3 errors, the
\* upstream client raises AuthException when the login fails.
ExceptionOf(at) ==
    IF at \in {"total_read", "hours_read", "upsert"} THEN "OperationalError"
    ELSE IF at \in {"accounts", "client"} THEN "AuthException"
    ELSE "none"

\* The classes `except Exception` catches.
CatchesNothing(exc) == FALSE

except_Exception(exc) ==
    exc \in {"OperationalError", "AuthException", "ValueError", "TypeError"}

\* UsageService._fetch_hourly_from_api: get_accounts (upstream unless cached),
\* set_contract, api.get_hourly_usage, then one upsert per record. `calls`
\* lists the upstream calls it made.
_fetch_hourly_from_api(s, up, contract_id, target_date, fault) ==
    LET known == AccountsKey \in DOMAIN s.cache
        first == IF known THEN <<>> ELSE <<"get_accounts">>
        fetched == api_get_hourly_usage(
                       IF target_date \in up.hourly THEN "records" ELSE "empty",
                       target_date)
        Stored(n) == [CacheAccounts(s) EXCEPT
                         !.table = StoreRecords(s.table, contract_id, "hourly", fetched, n)]
    IN IF fault.at = "accounts" /\ ~known
       THEN [s |-> s, hours |-> <<>>, raised |-> ExceptionOf(fault.at), calls |-> first]
       ELSE IF fault.at = "client"
       THEN [s |-> CacheAccounts(s), hours |-> <<>>, raised |-> ExceptionOf(fault.at),
             calls |-> first \o <<"get_hourly_usage">>]
       ELSE IF fault.at = "upsert" /\ fault.stored < Len(fetched)
       THEN [s |-> Stored(fault.stored), hours |-> <<>>, raised |-> ExceptionOf(fault.at),
             calls |-> first \o <<"get_hourly_usage">>]
       ELSE [s |-> Stored(Len(fetched)), hours |-> AsUsageData(fetched), raised |-> "none",
             calls |-> first \o <<"get_hourly_usage">>]

\* A read that asks upstream also when the store has rows of the day.
FetchAlways(stored) == TRUE

\* `if not hours:` of get_hourly_usage.
not_hours(stored) == stored = <<>>

HourlyUsageData(target_date, hours) ==
    [date |-> Midnight(target_date), hours |-> hours,
     total_value |-> SumSeq(hours, Len(hours))]

\* UsageService.get_hourly_usage: cache, then the stored rows, then
\* _fetch_hourly_from_api (which stores what it fetched); the result is cached.
\* `out` is None when it raised, `reads` counts the store reads.
get_hourly_usage(s, up, contract_id, target_date, fault) ==
    LET key == HourlyKey(contract_id, target_date)
        stored == get_hourly_data_for_date(s.table, contract_id, target_date)
        Return(s1, hours, calls) ==
            [s |-> [s1 EXCEPT !.cache = MapSet(s1.cache, key,
                                               HourlyUsageData(target_date, hours))],
             out |-> HourlyUsageData(target_date, hours), raised |-> "none",
             calls |-> calls, reads |-> 1]
    IN IF key \in DOMAIN s.cache
       THEN [s |-> s, out |-> s.cache[key], raised |-> "none", calls |-> <<>>, reads |-> 0]
       ELSE IF fault.at = "hours_read"
       THEN [s |-> s, out |-> None, raised |-> ExceptionOf(fault.at), calls |-> <<>>,
             reads |-> 1]
       ELSE IF ~not_hours(stored) THEN Return(s, stored, <<>>)
       ELSE With(_fetch_hourly_from_api(s, up, contract_id, target_date, fault),
                 LAMBDA f : IF f.raised # "none"
                            THEN [s |-> f.s, out |-> None, raised |-> f.raised,
                                  calls |-> f.calls, reads |-> 1]
                            ELSE Return(f.s, f.hours, f.calls))

\* UsageService._get_daily_total: the stored total, else the sum of the hours
\* of get_hourly_usage, None when there are none; an exception of a step is
\* caught and None returned. `failed` is the exception that was caught.
_get_daily_total(s, up, contract_id, target_date, fault) ==
    LET data == get_daily_total_from_db(s.table, contract_id, target_date)
        Except(s1, exc) ==
            [s |-> s1, out |-> None, failed |-> exc,
             raised |-> IF except_Exception(exc) THEN "none" ELSE exc]
    IN IF fault.at = "total_read" THEN Except(s, ExceptionOf(fault.at))
       ELSE IF data # None
       THEN [s |-> s, out |-> data, failed |-> "none", raised |-> "none"]
       ELSE With(get_hourly_usage(s, up, contract_id, target_date, fault),
                 LAMBDA hourly :
                    IF hourly.raised # "none" THEN Except(hourly.s, hourly.raised)
                    ELSE IF hourly.out.hours = <<>>
                    THEN [s |-> hourly.s, out |-> None, failed |-> "none",
                          raised |-> "none"]
                    ELSE [s |-> hourly.s,
                          out |-> Some([date |-> Midnight(target_date),
                                        value |-> SumSeq(hourly.out.hours,
                                                         Len(hourly.out.hours))]),
                          failed |-> "none", raised |-> "none"])

\* UsageService._fetch_month_from_api: the daily records of the month are
\* stored; the aggregate is computed over the fetched list.
_fetch_month_from_api(s, up, contract_id, month) ==
    LET start_date == strptime_Ym(month)
        end_date == EndOfMonth(start_date)
        last == IF up.last_daily < end_date THEN up.last_daily ELSE end_date
        usage == IF last < start_date THEN <<>>
                 ELSE api_get_monthly_usage("records", start_date, last)
        s1 == [CacheAccounts(s) EXCEPT
                  !.table = StoreRecords(s.table, contract_id, "daily", usage, Len(usage))]
        data == AsUsageData(usage)
    IN IF usage = <<>> THEN [s |-> CacheAccounts(s), out |-> None]
       ELSE [s |-> s1,
             out |-> Some(MonthlyAggregate(month, SumSeq(data, Len(data)), Len(data)))]

\* UsageService._get_month_aggregate: the stored aggregate, else the fetch.
_get_month_aggregate(s, up, contract_id, month) ==
    LET aggregate == get_monthly_aggregate_from_db(s.table, contract_id, month)
    IN IF aggregate # None THEN [s |-> s, out |-> aggregate]
       ELSE _fetch_month_from_api(s, up, contract_id, month)

ValueOf(opt) == (CHOOSE x \in opt : TRUE).value

\* for days_back in range(0, 8) of _find_latest_available_data.
RECURSIVE SearchBackwards(_, _, _, _, _)
SearchBackwards(acc0, up, contract_id, start_date, days_back) ==
    LET check_date == start_date - days_back
        Found(acc, r) ==
            LET acc1 == [acc EXCEPT !.s = r.s]
            IN IF r.out # None /\ ValueOf(r.out) > 0
               THEN IF acc.latest_day = None
                    THEN SearchBackwards(
                             [acc1 EXCEPT !.latest_day = r.out,
                                          !.data_as_of = Some(strftime_Ymd(check_date))],
                             up, contract_id, start_date, days_back + 1)
                    ELSE IF acc.previous_day = None
                    THEN [acc1 EXCEPT !.previous_day = r.out]
                    ELSE SearchBackwards(acc1, up, contract_id, start_date, days_back + 1)
               ELSE SearchBackwards(acc1, up, contract_id, start_date, days_back + 1)
        Turn(acc) ==
            IF days_back >= SearchDays THEN acc
            ELSE IF acc.latest_day # None /\ acc.data_as_of = Some(strftime_Ymd(check_date))
            THEN SearchBackwards(acc, up, contract_id, start_date, days_back + 1)
            ELSE With(_get_daily_total(acc.s, up, contract_id, check_date, NoFault),
                      LAMBDA r : Found(acc, r))
    IN With(acc0, Turn)

\* UsageService._find_latest_available_data: the latest stored hourly day and
\* the day before it, else the search backwards from start_date.
_find_latest_available_data(s, up, contract_id, start_date) ==
    LET latest_date == get_latest_data_date(s.table, contract_id, "hourly")
        d == CHOOSE x \in latest_date : TRUE
        latest_day == IF latest_date = None THEN None
                      ELSE get_daily_total_from_db(s.table, contract_id, d)
        found == latest_day # None /\ ValueOf(latest_day) > 0
        previous_day == IF found
                        THEN get_daily_total_from_db(s.table, contract_id, d - 1)
                        ELSE None
        acc == [s |-> s, latest_day |-> latest_day, previous_day |-> previous_day,
                data_as_of |-> IF found THEN Some(strftime_Ymd(d)) ELSE None]
    IN IF found /\ previous_day # None THEN acc
       ELSE SearchBackwards(acc, up, contract_id, start_date, 0)

\* round(x, 1) of x = 100 * num / den, in tenths of a percent (den > 0).
RoundTenths(num, den) ==
    LET n == 1000 * num
        q == n \div den
        r == n % den
    IN IF 2 * r < den THEN q
       ELSE IF 2 * r > den THEN q + 1
       ELSE IF q % 2 = 0 THEN q ELSE q + 1

ZeroDivisionError == [raised |-> TRUE]

\* ((a - b) / b) * 100 rounded, for b = bnum / bden and a = anum / aden.
percent_change(a, b) ==
    IF b.num = 0 THEN ZeroDivisionError
    ELSE [raised |-> FALSE,
          tenths |-> RoundTenths(a.num * b.den - b.num * a.den, b.num * a.den)]

\* A guard that lets a zero denominator through.
NotNegative(x) == x >= 0

\* `... > 0` of the three comparison guards.
positive(x) == x > 0

\* this_avg = this_month_data.daily_average
AverageOf(aggregate) == aggregate.daily_average

\* The comparisons of get_summary.
Comparisons(comparison_today, comparison_yesterday, this_month, last_month, last_week) ==
    LET vy == IF comparison_today # None /\ comparison_yesterday # None
                 /\ positive(ValueOf(comparison_yesterday))
              THEN Some(percent_change(Ratio(ValueOf(comparison_today), 1),
                                       Ratio(ValueOf(comparison_yesterday), 1)))
              ELSE None
        tm == CHOOSE x \in this_month : TRUE
        lm == CHOOSE x \in last_month : TRUE
        vm == IF this_month # None /\ last_month # None /\ positive(lm.value)
                 /\ positive(AverageOf(lm).num)
              THEN Some(percent_change(AverageOf(tm), AverageOf(lm)))
              ELSE None
        vw == IF comparison_today # None /\ last_week # None
                 /\ positive(ValueOf(last_week))
              THEN Some(percent_change(Ratio(ValueOf(comparison_today), 1),
                                       Ratio(ValueOf(last_week), 1)))
              ELSE None
    IN [vs_yesterday |-> vy, vs_last_month |-> vm, vs_same_day_last_week |-> vw]

\* The fields models.UsageSummary declares; a keyword that is no field is
\* ignored by the model class.
UsageSummaryFields ==
    {"contract_id", "today", "yesterday", "this_month", "last_month", "comparisons"}

UsageSummary(kwargs) == [f \in DOMAIN kwargs \cap UsageSummaryFields |-> kwargs[f]]

SummaryKey(contract_id) == <<"summary", contract_id>>

\* get_summary after its reads: the comparisons, the result, the cache.
Summarize(s, contract_id, found, today_data, yesterday_data, this_month_data, last_month_data, last_week_data) ==
    LET comparison_today == IF today_data.out # None THEN today_data.out
                            ELSE found.latest_day
        comparison_yesterday == IF yesterday_data.out # None THEN yesterday_data.out
                                ELSE found.previous_day
        comparisons == Comparisons(comparison_today, comparison_yesterday,
                                   this_month_data.out, last_month_data.out,
                                   last_week_data.out)
        raised == \E f \in DOMAIN comparisons :
                      comparisons[f] # None /\ (CHOOSE x \in comparisons[f] : TRUE).raised
        result == UsageSummary(
                      [contract_id |-> contract_id, today |-> today_data.out,
                       yesterday |-> yesterday_data.out,
                       this_month |-> this_month_data.out,
                       last_month |-> last_month_data.out,
                       comparisons |-> comparisons,
                       latest_day |-> found.latest_day,
                       previous_day |-> found.previous_day,
                       data_as_of |-> found.data_as_of])
        locals == [latest_day |-> found.latest_day, previous_day |-> found.previous_day,
                   data_as_of |-> found.data_as_of, last_week |-> last_week_data.out]
        s1 == last_week_data.s
    IN IF raised
       THEN [s |-> s1, raised |-> TRUE, cached |-> FALSE, locals |-> locals]
       ELSE [s |-> [s1 EXCEPT !.cache = MapSet(s1.cache, SummaryKey(contract_id), result)],
             raised |-> FALSE, cached |-> FALSE, out |-> result, locals |-> locals]

\* UsageService.get_summary: the reads in the order of the code, each on the
\* state the one before it left.
get_summary(s, up, contract_id) ==
    LET key == SummaryKey(contract_id)
        yesterday == Today - 1
        last_week_same_day == Today - 7
        last_month == FirstOfMonth(Today) - 1
    IN IF key \in DOMAIN s.cache
       THEN [s |-> s, raised |-> FALSE, cached |-> TRUE, out |-> s.cache[key]]
       ELSE
       With(_find_latest_available_data(s, up, contract_id, Today), LAMBDA found :
       With(_get_daily_total(found.s, up, contract_id, Today, NoFault), LAMBDA today_data :
       With(_get_daily_total(today_data.s, up, contract_id, yesterday, NoFault),
            LAMBDA yesterday_data :
       With(_get_month_aggregate(yesterday_data.s, up, contract_id, strftime_Ym(Today)),
            LAMBDA this_month_data :
       With(_get_month_aggregate(this_month_data.s, up, contract_id,
                                 strftime_Ym(last_month)),
            LAMBDA last_month_data :
       With(_get_daily_total(last_month_data.s, up, contract_id, last_week_same_day, NoFault),
            LAMBDA last_week_data :
            Summarize(s, contract_id, found, today_data, yesterday_data,
                      this_month_data, last_month_data, last_week_data)))))))

\* ------------------------------------------------------------------ actions
Settings(max_days, threshold, delay, days, months, ha) ==
    [backfill_max_days |-> max_days, backfill_empty_days_threshold |-> threshold,
     backfill_api_delay |-> delay, regular_sync_days |-> days,
     regular_sync_months |-> months, ha_configured |-> ha]

\* At most MaxFaults failures are injected in one run.
Inject(f) ==
    /\ f => faults < MaxFaults
    /\ faults' = IF f THEN faults + 1 ELSE faults

Frame == UNCHANGED <<settings, written, nupserts, upstream_accounts, api_payload, returned>>

\* A sync trigger: at most MaxTriggers of them in one run.
Trigger == triggers < MaxTriggers /\ triggers' = triggers + 1

\* Task t is suspended at pcv and no cancellation is pending for it.
At(t, pcv) == task[t].pc = pcv /\ ~task[t].cancel_requested

StartDates == {StartDate("none", 0), StartDate("date", Today - 5),
               StartDate("invalid", 0)}

ReqSyncAll(t) ==
    /\ At(t, "idle")
    /\ \E force \in BOOLEAN :
           Apply(trigger_sync_all(St, t, 1, 1, force))
    /\ Frame /\ UNCHANGED faults /\ Trigger

ReqSyncContract(t, Cs, DaysBack, Months) ==
    /\ At(t, "idle")
    /\ \E c \in Cs, d \in DaysBack, m \in Months, force \in BOOLEAN :
           Apply(trigger_sync_contract(St, t, c, d, m, force))
    /\ Frame /\ UNCHANGED faults /\ Trigger

ReqBackfillAll(t) ==
    /\ At(t, "idle")
    /\ \E adaptive \in BOOLEAN : Apply(trigger_backfill_all(St, t, adaptive))
    /\ Frame /\ UNCHANGED faults /\ Trigger

ReqAdaptiveAll(t) ==
    /\ At(t, "idle")
    /\ \E sd \in StartDates : Apply(trigger_adaptive_backfill_all(St, t, sd))
    /\ Frame /\ UNCHANGED faults /\ Trigger

ReqAdaptiveContract(t, Cs) ==
    /\ At(t, "idle")
    /\ \E c \in Cs, force \in BOOLEAN, sd \in StartDates :
           Apply(trigger_adaptive_backfill_contract(St, t, c, force, sd))
    /\ Frame /\ UNCHANGED faults /\ Trigger

\* The request was answered; the next request takes its place.
NextRequest(t) ==
    /\ At(t, "done")
    /\ task' = [task EXCEPT ![t] = IdleTask]
    /\ UNCHANGED <<_sync_running, _sync_task, _backfill_progress, usage_data,
                   cache, settings, written, nupserts, faults, upstream_accounts, triggers,
                   api_payload, returned>>

OnAccountsFetched(t) ==
    /\ At(t, "accounts")
    /\ \E raised \in BOOLEAN :
           Inject(raised) /\ Apply(AccountsFetched(St, t, raised))
    /\ Frame /\ UNCHANGED triggers

OnHourlyChecked(t, Raises) ==
    /\ At(t, "h_check")
    /\ \E raised \in Raises :
           Inject(raised) /\ Apply(HourlyChecked(St, t, raised))
    /\ Frame /\ UNCHANGED triggers

OnHourlyFetched(t, Payloads, Stored) ==
    /\ At(t, "h_fetch")
    /\ \E payload \in Payloads, raised \in BOOLEAN, stored \in Stored :
           /\ raised => payload = "records"
           /\ ~raised => stored = 0
           /\ Inject(raised \/ payload = "fail")
           /\ Apply(HourlyFetched(St, t, payload, raised, stored))
    /\ Frame /\ UNCHANGED triggers

OnHourlyDelayed(t) ==
    /\ At(t, "h_delay")
    /\ Apply(HourlyDelayed(St, t))
    /\ Frame /\ UNCHANGED <<faults, triggers>>

OnMonthlyChecked(t, Raises) ==
    /\ At(t, "m_check")
    /\ \E raised \in Raises :
           Inject(raised) /\ Apply(MonthlyChecked(St, t, raised))
    /\ Frame /\ UNCHANGED triggers

OnMonthlyFetched(t, Payloads, Stored) ==
    /\ At(t, "m_fetch")
    /\ \E payload \in Payloads, raised \in BOOLEAN,
          stored \in Stored :
           /\ raised => payload = "records"
           /\ ~raised => stored = 0
           /\ Inject(raised \/ payload = "fail")
           /\ Apply(MonthlyFetched(St, t, payload, raised, stored))
    /\ Frame /\ UNCHANGED triggers

OnMonthlyDelayed(t) ==
    /\ At(t, "m_delay")
    /\ Apply(MonthlyDelayed(St, t))
    /\ Frame /\ UNCHANGED <<faults, triggers>>

\* _notify_ha_of_update returned.
OnNotified(t) ==
    /\ At(t, "notify")
    /\ Apply(RunSyncReturn(St, t, task[t].results,
                           IF HasErrors(task[t].results) THEN "errors" ELSE "results"))
    /\ Frame /\ UNCHANGED <<faults, triggers>>

StartBackgroundSync(t) ==
    /\ task[t].pc \in {"idle", "cancelled"}
    /\ Apply(start_background_sync(St, t))
    /\ Frame /\ UNCHANGED <<faults, triggers>>

StopBackgroundSync ==
    /\ _sync_task # "none"
    /\ Apply(stop_background_sync(St))
    /\ Frame /\ UNCHANGED <<faults, triggers>>

OnWarmupDone(t) ==
    /\ At(t, "warmup")
    /\ task' = [task EXCEPT ![t].pc = "check_backfill"]
    /\ UNCHANGED <<_sync_running, _sync_task, _backfill_progress, usage_data,
                   cache, settings, written, nupserts, faults, upstream_accounts, triggers,
                   api_payload, returned>>

OnBackfillChecked(t) ==
    /\ At(t, "check_backfill")
    /\ \E raised \in BOOLEAN :
           Inject(raised) /\ Apply(InitialSync(St, t, raised))
    /\ Frame /\ Trigger

OnIntervalDone(t) ==
    /\ At(t, "interval")
    /\ Apply(IntervalSync(St, t))
    /\ Frame /\ UNCHANGED faults /\ Trigger

OnCancelled(t) ==
    /\ task[t].cancel_requested
    /\ task[t].pc # "cancelled"
    /\ Apply(Cancelled(St, t))
    /\ Frame /\ UNCHANGED <<faults, triggers>>

\* --------------------------------------------- the orchestrator, all tasks
Init ==
    /\ _sync_running = FALSE
    /\ _sync_task = "none"
    /\ _backfill_progress = EmptyMap
    /\ usage_data = EmptyBag
    /\ cache = EmptyMap
    /\ settings = Settings(1, 1, 1, 1, 1, TRUE)
    /\ task = [t \in Tasks |-> IdleTask]
    /\ written = EmptyMap
    /\ nupserts = 0
    /\ faults = 0
    /\ upstream_accounts = <<"c1">>
    /\ triggers = 0
    /\ api_payload = NoPayload
    /\ returned = NotCalled

Next ==
    \/ \E t \in Requests : ReqSyncAll(t)
    \/ \E t \in Requests : ReqSyncContract(t, {"c1"}, {1}, {1})
    \/ \E t \in Requests : ReqBackfillAll(t)
    \/ \E t \in Requests : ReqAdaptiveAll(t)
    \/ \E t \in Requests : ReqAdaptiveContract(t, {"c1"})
    \/ \E t \in Requests : NextRequest(t)
    \/ \E t \in Tasks : OnAccountsFetched(t)
    \/ \E t \in Tasks : OnHourlyChecked(t, {FALSE})
    \/ \E t \in Tasks : OnHourlyFetched(t, {"records", "empty"}, {0})
    \/ \E t \in Tasks : OnHourlyDelayed(t)
    \/ \E t \in Tasks : OnMonthlyChecked(t, {FALSE})
    \/ \E t \in Tasks : OnMonthlyFetched(t, {"records", "empty"}, {0})
    \/ \E t \in Tasks : OnMonthlyDelayed(t)
    \/ \E t \in Tasks : OnNotified(t)
    \/ \E t \in Background : StartBackgroundSync(t)
    \/ StopBackgroundSync
    \/ \E t \in Background : OnWarmupDone(t)
    \/ \E t \in Background : OnBackfillChecked(t)
    \/ \E t \in Background : OnIntervalDone(t)
    \/ \E t \in Background : OnCancelled(t)

Spec == Init /\ [][Next]_vars

\* ------------------------------------------------- the usage store alone
\* upsert_usage calls with arguments from small sets: two hours of one day and
\* an hour of the next, three samples that differ in which fields are null.
StoreTimestamps == {<<Today, 0>>, <<Today, 1>>, <<Today + 1, 0>>}

StoreSamples ==
    {Measured(1, "kWh", Some(1), Some(1), Some(1), Some(1)),
     Measured(2, "kWh", None, None, None, None),
     Measured(3, "kWh", Some(2), None, None, None)}

StoreKeys == Contracts \X StoreTimestamps \X Intervals

UpsertUsage ==
    /\ nupserts < MaxUpserts
    /\ \E c \in Contracts, ts \in StoreTimestamps, i \in Intervals, m \in StoreSamples :
           /\ usage_data' = upsert_usage(usage_data, c, ts, i, m)
           /\ written' = MapSet(written, <<c, ts, i>>,
                                IF <<c, ts, i>> \in DOMAIN written
                                THEN Append(written[<<c, ts, i>>], m) ELSE <<m>>)
    /\ nupserts' = nupserts + 1
    /\ UNCHANGED <<_sync_running, _sync_task, _backfill_progress, cache, settings,
                   task, faults, upstream_accounts, triggers, api_payload, returned>>

NextStore == UpsertUsage

SpecStore == Init /\ [][NextStore]_vars

\* ------------------------------------- one per-contract sync, run alone
\* Configurations: the day cap, the empty-day threshold, the delay off or on.
SyncSettings ==
    {Settings(md, th, dl, 1, 1, FALSE) :
        md \in 1..MaxBackfillDays, th \in 1..MaxThreshold, dl \in {0, 1}}

WithHourly(table, d) ==
    StoreRecords(table, "c1", "hourly", api_get_hourly_usage("records", d), HoursPerDay)

WithDaily(table, start) ==
    StoreRecords(table, "c1", "daily",
                 api_get_monthly_usage("records", start, EndOfMonth(start)), MonthLen)

\* What earlier syncs left in the table: nothing, the hours of today, the
\* hours of a day of the backfill window, or those and the days of this month.
StoredTables ==
    {EmptyBag, WithHourly(EmptyBag, Today), WithHourly(EmptyBag, Today - 6),
     WithDaily(WithHourly(WithHourly(EmptyBag, Today), Today - 6), FirstOfMonth(Today))}

InitSync ==
    /\ _sync_running = FALSE
    /\ _sync_task = "none"
    /\ _backfill_progress = EmptyMap
    /\ usage_data \in StoredTables
    /\ cache = EmptyMap
    /\ settings \in SyncSettings
    /\ task = [t \in Tasks |-> IdleTask]
    /\ written = EmptyMap
    /\ nupserts = 0
    /\ faults = 0
    /\ upstream_accounts = <<"c1">>
    /\ triggers = 0
    /\ api_payload = NoPayload
    /\ returned = NotCalled

NextSync ==
    \/ ReqSyncContract("r1", {"c1"}, 1..MaxDaysBack, 0..MaxMonths)
    \/ ReqAdaptiveContract("r1", {"c1"})
    \/ OnHourlyChecked("r1", BOOLEAN)
    \/ OnHourlyFetched("r1", UpstreamPayloads, {0, 1})
    \/ OnHourlyDelayed("r1")
    \/ OnMonthlyChecked("r1", BOOLEAN)
    \/ OnMonthlyFetched("r1", UpstreamPayloads, {0, 1})
    \/ OnMonthlyDelayed("r1")

SpecSync == InitSync /\ [][NextSync]_vars

\* ------------------------------- one trigger, two contracts upstream
\* One request against an upstream account with two contracts (or none), the
\* notification sink configured or not.
BatchSettings == {Settings(1, 1, 1, 1, 1, ha) : ha \in BOOLEAN}

\* What earlier syncs left: nothing, or everything of the regular window of c1.
BatchTables ==
    {EmptyBag, WithDaily(WithHourly(EmptyBag, Today), FirstOfMonth(Today))}

InitBatch ==
    /\ _sync_running = FALSE
    /\ _sync_task = "none"
    /\ _backfill_progress = EmptyMap
    /\ usage_data \in BatchTables
    /\ cache = EmptyMap
    /\ settings \in BatchSettings
    /\ task = [t \in Tasks |-> IdleTask]
    /\ written = EmptyMap
    /\ nupserts = 0
    /\ faults = 0
    /\ upstream_accounts \in {<<>>, <<"c1", "c2">>}
    /\ triggers = 0
    /\ api_payload = NoPayload
    /\ returned = NotCalled

NextBatch ==
    \/ ReqSyncAll("r1")
    \/ ReqSyncContract("r1", Contracts, {1}, {1})
    \/ ReqBackfillAll("r1")
    \/ OnAccountsFetched("r1")
    \/ OnHourlyChecked("r1", {FALSE})
    \/ OnHourlyFetched("r1", {"records", "empty"}, {0})
    \/ OnHourlyDelayed("r1")
    \/ OnMonthlyChecked("r1", {FALSE})
    \/ OnMonthlyFetched("r1", {"records", "empty"}, {0})
    \/ OnMonthlyDelayed("r1")
    \/ OnNotified("r1")

SpecBatch == InitBatch /\ [][NextBatch]_vars

\* ------------------------------------ the background loop, without end
\* The loop with one triggered sync beside it. The number of syncs of the
\* loop is not bounded; `returned` holds the parity of its _run_sync calls.
InitLoop ==
    /\ _sync_running = FALSE
    /\ _sync_task = "none"
    /\ _backfill_progress = EmptyMap
    /\ usage_data = EmptyBag
    /\ cache = EmptyMap
    /\ settings = Settings(1, 1, 0, 1, 1, FALSE)
    /\ task = [t \in Tasks |-> IdleTask]
    /\ written = EmptyMap
    /\ nupserts = 0
    /\ faults = 0
    /\ upstream_accounts = <<"c1">>
    /\ triggers = 0
    /\ api_payload = NoPayload
    /\ returned = [fn |-> "_run_sync", attempts |-> 0]

\* The loop called _run_sync once more. Neither the calls of the loop nor
\* the failures of its backfill check are counted: the loop has no last turn.
Attempted ==
    /\ returned' = [returned EXCEPT !.attempts = 1 - returned.attempts]
    /\ UNCHANGED <<settings, written, nupserts, upstream_accounts, api_payload,
                   triggers, faults>>

LoopBackfillChecked(t) ==
    /\ At(t, "check_backfill")
    /\ \E raised \in BOOLEAN : Apply(InitialSync(St, t, raised))
    /\ Attempted

LoopIntervalDone(t) ==
    /\ At(t, "interval")
    /\ Apply(IntervalSync(St, t))
    /\ Attempted

\* The awaits of a running sync of task t return or raise.
SyncStep(t) ==
    \/ OnAccountsFetched(t)
    \/ OnHourlyChecked(t, {FALSE})
    \/ OnHourlyFetched(t, {"records", "empty"}, {0})
    \/ OnMonthlyChecked(t, {FALSE})
    \/ OnMonthlyFetched(t, {"records", "empty"}, {0})

\* What the event loop does for the background task: its sleeps end, its
\* awaits return or raise, a requested cancellation is delivered.
LoopStep(t) ==
    \/ OnWarmupDone(t)
    \/ LoopBackfillChecked(t)
    \/ LoopIntervalDone(t)
    \/ SyncStep(t)
    \/ OnCancelled(t)

\* One triggered sync beside the loop; its fetches find nothing new.
RequestStep(t) ==
    \/ ReqSyncAll(t)
    \/ OnAccountsFetched(t)
    \/ OnHourlyChecked(t, {FALSE})
    \/ OnHourlyFetched(t, {"empty"}, {0})
    \/ OnMonthlyChecked(t, {FALSE})
    \/ OnMonthlyFetched(t, {"empty"}, {0})

NextLoop ==
    \/ StartBackgroundSync("bg")
    \/ StopBackgroundSync
    \/ LoopStep("bg")
    \/ RequestStep("r1")

\* Task t is suspended in an await of a running sync: a step of SyncStep(t)
\* is possible exactly then.
AwaitsSync(t) ==
    \E pcv \in {"accounts", "h_check", "h_fetch", "m_check", "m_fetch"} : At(t, pcv)

\* asyncio resumes a task whose sleep or await has completed: weak fairness
\* of every step of the background task (for SyncStep with its enabling
\* condition written out as AwaitsSync).
LoopFairness ==
    /\ WF_vars(OnWarmupDone("bg"))
    /\ WF_vars(LoopBackfillChecked("bg"))
    /\ WF_vars(LoopIntervalDone("bg"))
    /\ WF_vars(OnCancelled("bg"))
    /\ ([]<>(~AwaitsSync("bg")) \/ []<><<SyncStep("bg")>>_vars)

SpecLoop == InitLoop /\ [][NextLoop]_vars /\ LoopFairness

\* ------------------------------------------ the progress map and its users
\* Two contracts, the background loop and a sequence of requests of every
\* kind, the status query among them. Upstream has no data to hand out.
InitProgress ==
    /\ _sync_running = FALSE
    /\ _sync_task = "none"
    /\ _backfill_progress = EmptyMap
    /\ usage_data = EmptyBag
    /\ cache = EmptyMap
    /\ settings = Settings(1, 1, 0, 1, 1, FALSE)
    /\ task = [t \in Tasks |-> IdleTask]
    /\ written = EmptyMap
    /\ nupserts = 0
    /\ faults = 0
    /\ upstream_accounts = <<"c1", "c2">>
    /\ triggers = 0
    /\ api_payload = NoPayload
    /\ returned = NotCalled

\* GET /sync/status
get_sync_status(s) == [fn |-> "get_sync_status", running |-> s.running,
                       progress |-> s.progress]

GetSyncStatus(t) ==
    /\ At(t, "idle")
    /\ Apply(Answer(SetRoute(St, t, "status"), t, "status"))
    /\ returned' = get_sync_status(St)
    /\ UNCHANGED <<settings, written, nupserts, upstream_accounts, api_payload,
                   faults, triggers>>

NextProgress ==
    \/ ReqSyncAll("r1")
    \/ ReqSyncContract("r1", Contracts, {1}, {1})
    \/ ReqBackfillAll("r1")
    \/ ReqAdaptiveAll("r1")
    \/ ReqAdaptiveContract("r1", Contracts)
    \/ GetSyncStatus("r1")
    \/ NextRequest("r1")
    \/ \E t \in Tasks : OnAccountsFetched(t)
    \/ \E t \in Tasks : OnHourlyChecked(t, {FALSE})
    \/ \E t \in Tasks : OnHourlyFetched(t, {"empty"}, {0})
    \/ \E t \in Tasks : OnMonthlyChecked(t, {FALSE})
    \/ \E t \in Tasks : OnMonthlyFetched(t, {"empty"}, {0})
    \/ StartBackgroundSync("bg")
    \/ StopBackgroundSync
    \/ OnWarmupDone("bg")
    \/ OnBackfillChecked("bg")
    \/ OnIntervalDone("bg")
    \/ OnCancelled("bg")

SpecProgress == InitProgress /\ [][NextProgress]_vars

\* ------------------------------------------- the payload normaliser alone
\* Entries of a list payload: two datums, an error string, an object without
\* the attributes of a datum, a datum whose value is None.
PayloadEntries ==
    {Datum(Today), Datum(Today - 1), [kind |-> "str"], [kind |-> "object"],
     [kind |-> "datum_without_value"]}

RECURSIVE SeqsUpTo(_, _)
SeqsUpTo(S, n) ==
    IF n = 0 THEN {<<>>}
    ELSE LET shorter == SeqsUpTo(S, n - 1)
         IN shorter \cup {Append(q, x) : q \in shorter, x \in S}

RawPayloads ==
    {NoPayload, [kind |-> "str", len |-> 0], [kind |-> "str", len |-> 1],
     [kind |-> "int", n |-> 0], [kind |-> "int", n |-> 1]}
    \cup {[kind |-> "list", items |-> q] : q \in SeqsUpTo(PayloadEntries, MaxPayloadLen)}

\* The client returns a payload to get_hourly_usage or get_monthly_usage.
ClientReturns ==
    /\ returned = NotCalled
    /\ api_payload = NoPayload
    /\ \E p \in RawPayloads, fn \in {"get_hourly_usage", "get_monthly_usage"} :
           /\ api_payload' = p
           /\ returned' = [fn |-> fn, called |-> FALSE]
    /\ UNCHANGED <<_sync_running, _sync_task, _backfill_progress, usage_data, cache,
                   settings, task, written, nupserts, faults, upstream_accounts, triggers>>

\* The wrapper normalises the payload and returns.
Normalize ==
    /\ returned.fn \in {"get_hourly_usage", "get_monthly_usage"}
    /\ ~returned.called
    /\ returned' = [fn |-> returned.fn, called |-> TRUE, out |-> normalize(api_payload)]
    /\ UNCHANGED <<_sync_running, _sync_task, _backfill_progress, usage_data, cache,
                   settings, task, written, nupserts, faults, upstream_accounts, triggers,
                   api_payload>>

NextNorm == ClientReturns \/ Normalize

SpecNorm == Init /\ [][NextNorm]_vars

\* ------------------------------------------- specification of the summary
\* get_summary of one contract over the tables earlier syncs left and what
\* upstream holds. The days of the table are today - k for these k.
SummaryOffsets == {0, 1, 2, 3, 4, 7}

\* The hourly values stored for one day: no row, a zero reading, one or two
\* readings.
DayConfigs == {<<>>, <<0>>, <<1>>, <<1, 2>>}
SparseDayConfigs == {<<>>, <<0>>, <<1, 2>>}

Reading(value) == Measured(value, "kWh", None, None, None, None)

HourlyRows(contract_id, d, cfg) ==
    {UsageRow(contract_id, isoformat(<<d, h - 1>>), "hourly", Reading(cfg[h])) :
        h \in 1..Len(cfg)}

\* The daily rows of the first Len(cfg) days of the month that starts at first.
DailyRows(contract_id, first, cfg) ==
    {UsageRow(contract_id, isoformat(Midnight(first + k - 1)), "daily", Reading(cfg[k])) :
        k \in 1..Len(cfg)}

ThisMonthConfigs == {<<>>, <<2>>}
LastMonthConfigs == {<<>>, <<0>>, <<2, 4>>}

\* Upstream is some days behind: nothing at all, or hourly and daily records
\* up to 3 days ago, or up to yesterday.
SummaryUpstreams ==
    {Upstream({}, 0),
     Upstream({Today - k : k \in 3..SearchDays}, Today - 3),
     Upstream({Today - k : k \in 1..SearchDays}, Today - 1)}

SummaryTables ==
    {SetToBag(UNION {HourlyRows("c1", Today - k, f[k]) : k \in SummaryOffsets}
              \cup DailyRows("c1", FirstOfMonth(Today), this)
              \cup DailyRows("c1", FirstOfMonth(FirstOfMonth(Today) - 1), last)
              \cup HourlyRows("c2", Today, <<1, 2>>)
              \cup DailyRows("c2", FirstOfMonth(Today), <<2>>)) :
        f \in {g \in [SummaryOffsets -> DayConfigs] :
                  /\ g[2] \in {<<>>, <<0>>}
                  /\ g[3] \in {<<>>, <<1>>}
                  /\ g[4] \in {<<>>, <<1, 2>>}
                  /\ g[7] \in SparseDayConfigs},
        this \in ThisMonthConfigs, last \in LastMonthConfigs}

InitSummary ==
    /\ _sync_running = FALSE
    /\ _sync_task = "none"
    /\ _backfill_progress = EmptyMap
    /\ usage_data \in SummaryTables
    /\ cache = EmptyMap
    /\ settings = Settings(1, 1, 1, 1, 1, TRUE)
    /\ task = [t \in Tasks |-> IdleTask]
    /\ written = EmptyMap
    /\ nupserts = 0
    /\ faults = 0
    /\ upstream_accounts = <<"c1">>
    /\ triggers = 0
    /\ api_payload \in SummaryUpstreams
    /\ returned = NotCalled

\* GET /contracts/{contract_id}/summary served from its first line to its return.
GetSummary ==
    \E contract_id \in {"c1"} :
        \E r \in {get_summary(St, api_payload, contract_id)} :
           /\ Apply(r.s)
           /\ returned' = [fn |-> "get_summary", contract_id |-> contract_id,
                           before |-> usage_data,
                           res |-> [f \in DOMAIN r \ {"s"} |-> r[f]]]
           /\ UNCHANGED <<settings, written, nupserts, faults, upstream_accounts,
                          triggers, api_payload>>

NextSummary == GetSummary

SpecSummary == InitSummary /\ [][NextSummary]_vars

\* ------------------------------------------------------------------ claims
SyncBodyPcs == {"h_check", "h_fetch", "h_delay", "m_check", "m_fetch", "m_delay"}

\* Task t is executing sync_contract_data or sync_contract_data_adaptive.
InSyncBody(t) == task[t].pc \in SyncBodyPcs

\* C1: at every moment at most one task is executing a per-contract sync
\* body (sync_contract_data / sync_contract_data_adaptive), whichever entry
\* point started it.
C1_AtMostOneSyncBody == Cardinality({t \in Tasks : InSyncBody(t)}) <= 1

\* C2: a request trigger that arrives while the running flag is set is
\* answered at once (the request is done, not waiting and not inside a sync)
\* and leaves the store, the cache, the progress map and the flag as they were.
C2_TriggerWhileRunningRejected ==
    [][\A t \in Requests :
          (_sync_running /\ task[t].pc = "idle" /\ task'[t].pc # "idle")
              => /\ task'[t].pc = "done"
                 /\ task'[t].response = "already_running"
                 /\ UNCHANGED <<usage_data, cache, _backfill_progress, _sync_running>>]_vars

\* C3: the running flag is set exactly while some task is inside the body of
\* _run_sync: it is set when the body starts and false once _run_sync has
\* ended, whether it returned results, results with per-item errors, or [] after
\* an exception; a _run_sync that has ended never leaves the flag stuck.
C3_FlagIffInsideRunSync ==
    /\ _sync_running <=> (\E t \in Tasks : task[t].in_run_sync)
    /\ \A t \in Tasks :
           (task[t].ended \in {"results", "errors", "exception"} /\ ~task[t].in_run_sync)
               => (_sync_running => \E u \in Tasks \ {t} : task[u].in_run_sync)

C3_Witness ==
    \E t \in Tasks : task[t].ended = "exception" /\ ~_sync_running

\* C4: a step that cancels the background task, wherever it was suspended,
\* leaves the flag false unless a request is inside _run_sync, whose flag it
\* leaves set; a cancelled background task takes no further step of its loop.
C4_CancelReleasesOnlyOwnFlag ==
    [][\A t \in Background :
          /\ (task[t].pc # "cancelled" /\ task'[t].pc = "cancelled")
                 => (_sync_running' <=> (\E r \in Requests : task[r].in_run_sync))
          /\ task[t].pc = "cancelled" => task'[t].pc \in {"cancelled", "warmup"}]_vars

C4_Witness ==
    \E t \in Background :
        /\ task[t].pc = "cancelled"
        /\ task[t].cancelled_at \in {"h_fetch", "h_delay"}
        /\ task[t].ended = "cancelled"
        /\ ~_sync_running

\* C5: after any sequence of upsert_usage calls the table holds exactly one
\* row for every key (contract_id, timestamp, interval) that was written, its
\* measured fields are those of the key's last write, nulls included, and it
\* holds no row for a key that was not written.
C5_OneRowPerKeyLastWriteWins ==
    /\ \A k \in StoreKeys :
           LET key == <<k[1], isoformat(k[2]), k[3]>>
           IN IF k \in DOMAIN written
              THEN /\ CountKey(usage_data, key) = 1
                   /\ \A r \in RowsWithKey(usage_data, key) :
                          MeasuredOf(r) = written[k][Len(written[k])]
              ELSE CountKey(usage_data, key) = 0
    /\ BagCardinality(usage_data) = Cardinality(DOMAIN written)

C5_Witness ==
    /\ Cardinality(DOMAIN written) >= 2
    /\ \E k \in DOMAIN written :
           /\ Len(written[k]) >= 2
           /\ written[k][1].dollar_value # None
           /\ written[k][Len(written[k])].dollar_value = None

\* The table holds a row of the contract and interval whose timestamp is on
\* day d / in the month.
StoredOn(table, c, d, interval) ==
    \E r \in BagToSet(table) :
        /\ r.contract_id = c /\ r.interval = interval
        /\ r.date[1] = MonthOf(d) /\ r.date[2] = DayOfMonth(d)

StoredInMonth(table, c, month, interval) ==
    \E r \in BagToSet(table) :
        r.contract_id = c /\ r.interval = interval /\ r.date[1] = month[1]

\* C6: with force = false no upstream hourly call is in flight for a date
\* that has a stored hourly row of the contract and no range call for a month
\* that has a stored daily row; the check of such an item counts it as
\* skipped and issues no call.
C6_StoredItemsAreSkipped ==
    [][\A t \in Requests :
          LET l == task[t]
              n == task'[t]
          IN ~n.force =>
              /\ n.pc = "h_fetch" =>
                     ~StoredOn(usage_data', Contract(n), TargetDate(n), "hourly")
              /\ n.pc = "m_fetch" =>
                     ~StoredInMonth(usage_data', Contract(n), MonthStr(n.j), "daily")
              /\ (/\ l.pc = "h_check" /\ n.nraised = l.nraised
                  /\ StoredOn(usage_data, Contract(l), TargetDate(l), "hourly"))
                     => /\ n.stats.hourly_days_skipped = l.stats.hourly_days_skipped + 1
                        /\ ~(n.pc = "h_fetch" /\ n.i = l.i)
              /\ (/\ l.pc = "m_check" /\ n.nraised = l.nraised
                  /\ StoredInMonth(usage_data, Contract(l), MonthStr(l.j), "daily"))
                     => /\ n.stats.months_skipped = l.stats.months_skipped + 1
                        /\ ~(n.pc = "m_fetch" /\ n.j = l.j)]_vars

C6_Witness ==
    \E t \in Requests :
        /\ task[t].pc = "done" /\ ~task[t].force
        /\ task[t].stats.hourly_days_skipped >= 1
        /\ task[t].stats.months_skipped >= 1
        /\ task[t].hourly_calls # {}

\* The length of the run of empty fetch results that ends the outcomes of the
\* days processed so far; a day whose processing raised has no fetch result.
RECURSIVE TrailingEmpty(_)
TrailingEmpty(o) ==
    IF o = <<>> THEN 0
    ELSE LET last == o[Len(o)]
             rest == SubSeq(o, 1, Len(o) - 1)
         IN IF last = "empty" THEN 1 + TrailingEmpty(rest)
            ELSE IF last = "error" THEN TrailingEmpty(rest)
            ELSE 0

\* C7: with threshold T the hourly loop of the adaptive backfill has stopped
\* exactly when the T-th consecutive empty fetch result came in: before that
\* it has not stopped, at that day it stops, and no hourly call is made for a
\* date earlier than that day.
C7_StopsAtThreshold ==
    \A t \in Requests :
        LET l == task[t]
            T == settings.backfill_empty_days_threshold
            day == l.start_date - (Len(l.outcomes) - 1)
        IN l.adaptive =>
            /\ l.stopped_at = None => TrailingEmpty(l.outcomes) < T
            /\ l.stopped_at # None =>
                   /\ TrailingEmpty(l.outcomes) = T
                   /\ l.outcomes[Len(l.outcomes)] = "empty"
                   /\ l.stopped_at = Some(day)
                   /\ \A d \in l.hourly_calls : d >= day
                   /\ l.pc \notin {"h_check", "h_fetch", "h_delay"}

C7_Witness ==
    \E t \in Requests :
        /\ task[t].adaptive /\ task[t].pc = "done"
        /\ settings.backfill_empty_days_threshold = 2
        /\ task[t].stopped_at # None
        /\ task[t].outcomes[1] = "data"
        /\ Len(task[t].outcomes) < task[t].days

\* C8: in the adaptive backfill a failed upstream hourly call is recorded in
\* the errors, leaves the consecutive-empty counter and the empty-day count
\* as they were, and is not the day the loop stops at.
C8_FailedCallIsNotEmptyDay ==
    [][\A t \in Requests :
          LET l == task[t]
              n == task'[t]
          IN (/\ l.adaptive /\ l.pc = "h_fetch"
              /\ n.ncalls = l.ncalls + 1 /\ n.last_payload = "fail")
                 => /\ Len(n.stats.errors) = Len(l.stats.errors) + 1
                    /\ n.consecutive_empty = l.consecutive_empty
                    /\ n.stats.hourly_days_empty = l.stats.hourly_days_empty
                    /\ n.stopped_at = None]_vars

\* C9: an exception raised while one day or month is processed is appended
\* to the errors and never leaves the operation: every day processed so far
\* has an outcome, and the operation completes with its stats after the whole
\* window (all days unless the adaptive loop stopped, and all months).
C9_ItemErrorsDoNotAbort ==
    \A t \in Requests :
        LET l == task[t]
        IN l.route \in {"sync_contract", "adaptive_contract"} =>
            /\ l.response # "raised"
            /\ Len(l.stats.errors) = l.nraised
            /\ l.stopped_at = None =>
                   Len(l.outcomes) = IF l.pc = "h_delay" THEN l.i + 1 ELSE l.i
            /\ (l.pc = "done" /\ l.response = "completed") =>
                   /\ l.j = l.months
                   /\ l.stopped_at = None => l.i = l.days
                   /\ l.results = <<l.stats>>

C9_Witness ==
    \E t \in Requests :
        /\ task[t].pc = "done" /\ task[t].response = "completed"
        /\ task[t].nraised >= 1
        /\ Len(task[t].outcomes) >= 2 /\ task[t].outcomes[1] = "error"
        /\ task[t].outcomes[2] = "data"
        /\ task[t].months >= 1

\* C10: in the adaptive backfill with a positive delay, an upstream call
\* that is not the first of the pass comes after a rate-limit delay that was
\* awaited since the call before it.
C10_DelayBetweenCalls ==
    [][\A t \in Requests :
          LET l == task[t]
              n == task'[t]
          IN (/\ l.adaptive /\ settings.backfill_api_delay > 0
              /\ l.ncalls >= 1 /\ n.ncalls = l.ncalls + 1)
                 => l.last_event = "delay"]_vars

\* The positions of the entries of a list payload that are datums.
ValidPositions(items) == {k \in 1..Len(items) : items[k].kind = "datum"}

\* C11: the wrapper never raises on a payload; None, an empty or non-empty
\* string, a number and an empty list give []; a list gives exactly its
\* datums, converted, in their original order, every other entry dropped.
C11_NormalizerTotalAndFiltering ==
    (returned.fn \in {"get_hourly_usage", "get_monthly_usage"} /\ returned.called) =>
        LET out == returned.out
            items == IF api_payload.kind = "list" THEN api_payload.items ELSE <<>>
            valid == ValidPositions(items)
        IN /\ ~out.raised
           /\ Len(out.result) = Cardinality(valid)
           /\ \A k \in valid :
                  LET rank == Cardinality({j \in valid : j <= k})
                  IN /\ out.result[rank].date = items[k].date
                     /\ out.result[rank].m = items[k].m

C11_Witness ==
    /\ returned.fn = "get_hourly_usage" /\ returned.called
    /\ api_payload.kind = "list" /\ Len(api_payload.items) = 3
    /\ api_payload.items[1] = Datum(Today - 1)
    /\ api_payload.items[2].kind = "object"
    /\ api_payload.items[3] = Datum(Today)
    /\ Len(returned.out.result) = 2

\* The summary of the call under study, computed and not served from the cache.
SummaryComputed == returned.fn = "get_summary" /\ ~returned.res.cached

\* t is x = 100 * num / den rounded to one decimal, in tenths (den > 0).
IsRounded(t, num, den) ==
    LET e == t * den - 1000 * num
    IN 2 * e <= den /\ -2 * e <= den

IsPercentChange(t, a, b) == ~t.raised /\ IsRounded(t.tenths, a - b, b)

\* C12: get_summary computes a comparison percentage only with a strictly
\* positive denominator and leaves it absent otherwise: vs_yesterday divides by
\* the yesterday value, vs_same_day_last_week by the last-week value,
\* vs_last_month by last month's daily average and compares the two daily
\* averages; no division by zero happens.
C12_ComparisonsNeedPositiveDenominator ==
    SummaryComputed =>
        /\ ~returned.res.raised
        /\ LET out == returned.res.out
               loc == returned.res.locals
               cmp == out.comparisons
               ct == IF out.today # None THEN out.today ELSE loc.latest_day
               cy == IF out.yesterday # None THEN out.yesterday ELSE loc.previous_day
               lw == loc.last_week
               tm == CHOOSE x \in out.this_month : TRUE
               lm == CHOOSE x \in out.last_month : TRUE
               vy == CHOOSE x \in cmp.vs_yesterday : TRUE
               vw == CHOOSE x \in cmp.vs_same_day_last_week : TRUE
               vm == CHOOSE x \in cmp.vs_last_month : TRUE
           IN /\ cmp.vs_yesterday # None <=>
                     (ct # None /\ cy # None /\ ValueOf(cy) > 0)
              /\ cmp.vs_yesterday # None =>
                     IsPercentChange(vy, ValueOf(ct), ValueOf(cy))
              /\ cmp.vs_same_day_last_week # None <=>
                     (ct # None /\ lw # None /\ ValueOf(lw) > 0)
              /\ cmp.vs_same_day_last_week # None =>
                     IsPercentChange(vw, ValueOf(ct), ValueOf(lw))
              /\ cmp.vs_last_month # None <=>
                     (out.this_month # None /\ out.last_month # None
                      /\ lm.days_with_data > 0 /\ lm.value > 0)
              /\ cmp.vs_last_month # None =>
                     /\ ~vm.raised
                     \* (this_avg - last_avg) / last_avg with avg = value / days
                     /\ IsRounded(vm.tenths,
                                  tm.value * lm.days_with_data - lm.value * tm.days_with_data,
                                  lm.value * tm.days_with_data)

\* A summary with vs_yesterday and vs_last_month computed, the two months of
\* different lengths, and the last-week comparison absent for a zero reading.
C12_Witness ==
    /\ SummaryComputed
    /\ ~returned.res.raised
    /\ returned.res.out.comparisons.vs_yesterday # None
    /\ returned.res.out.comparisons.vs_last_month # None
    /\ (CHOOSE x \in returned.res.out.this_month : TRUE).days_with_data
           # (CHOOSE x \in returned.res.out.last_month : TRUE).days_with_data
    /\ returned.res.locals.last_week # None
    /\ ValueOf(returned.res.locals.last_week) = 0
    /\ returned.res.out.comparisons.vs_same_day_last_week = None

\* The stored daily rows of a contract on one day, by the row's own date.
DailyRowsOn(table, contract_id, d) ==
    {r \in BagToSet(table) :
        r.contract_id = contract_id /\ r.interval = "daily"
        /\ fromisoformat(r.date)[1] = d}

RECURSIVE RowsValue(_, _)
RowsValue(table, rows) ==
    IF rows = {} THEN [n |-> 0, total |-> 0]
    ELSE LET r == CHOOSE x \in rows : TRUE
             rest == RowsValue(table, rows \ {r})
         IN [n |-> rest.n + CopiesIn(r, table),
             total |-> rest.total + r.value * CopiesIn(r, table)]

\* Count and sum of the stored daily rows of the month that starts at first.
MonthRows(table, contract_id, first) ==
    RowsValue(table, UNION {DailyRowsOn(table, contract_id, first + k) :
                               k \in 0..(MonthLen - 1)})

IsAggregateOf(aggregate, rows) ==
    IF rows.n = 0 THEN aggregate = None
    ELSE /\ aggregate # None
         /\ LET a == CHOOSE x \in aggregate : TRUE
            IN /\ a.value = rows.total
               /\ a.days_with_data = rows.n
               /\ a.daily_average.den > 0
               /\ a.daily_average.num * rows.n = rows.total * a.daily_average.den

NoDataFor(d) ==
    /\ get_daily_total_from_db(returned.before, returned.contract_id, d) = None
    /\ d \notin api_payload.hourly

\* What the day's positive total is: the stored one, else the upstream one.
PositiveTotal(d) ==
    LET stored == get_daily_total_from_db(returned.before, returned.contract_id, d)
    IN IF stored # None THEN (IF ValueOf(stored) > 0 THEN stored ELSE None)
       ELSE IF d \in api_payload.hourly
       THEN Some([date |-> Midnight(d), value |-> HoursPerDay * UpstreamSample.value])
       ELSE None

\* Upstream is three days behind: nothing for today, yesterday and the day
\* before, positive totals 3 and 4 days ago.
DelayedByThreeDays ==
    /\ SummaryComputed
    /\ NoDataFor(Today) /\ NoDataFor(Today - 1) /\ NoDataFor(Today - 2)
    /\ PositiveTotal(Today - 3) # None
    /\ PositiveTotal(Today - 4) # None

\* C14: with no data for today and yesterday and positive data 3 and 4 days
\* ago, the summary get_summary returns carries these two days as latest_day
\* and previous_day, data_as_of is the date 3 days ago, and vs_yesterday is the
\* change between the two values.
C14_SummaryReportsLatestAvailable ==
    DelayedByThreeDays =>
        LET out == returned.res.out
            vy == CHOOSE x \in out.comparisons.vs_yesterday : TRUE
        IN /\ out.comparisons.vs_yesterday # None
           /\ IsPercentChange(vy, ValueOf(PositiveTotal(Today - 3)),
                                  ValueOf(PositiveTotal(Today - 4)))
           /\ {"latest_day", "previous_day", "data_as_of"} \subseteq DOMAIN out
           /\ ValueOf(out.latest_day) = ValueOf(PositiveTotal(Today - 3))
           /\ ValueOf(out.previous_day) = ValueOf(PositiveTotal(Today - 4))
           /\ out.data_as_of = Some(strftime_Ymd(Today - 3))

\* The search itself finds the two days and the comparison uses them; the
\* returned summary has no field for them.
C14_Witness ==
    /\ DelayedByThreeDays
    /\ ValueOf(returned.res.locals.latest_day) = ValueOf(PositiveTotal(Today - 3))
    /\ ValueOf(returned.res.locals.previous_day) = ValueOf(PositiveTotal(Today - 4))
    /\ returned.res.locals.data_as_of = Some(strftime_Ymd(Today - 3))
    /\ returned.res.out.comparisons.vs_yesterday # None
    /\ "latest_day" \notin DOMAIN returned.res.out

\* The results of a run that changed data, by their counters.
Changed(result) == result.hourly_days_synced > 0 \/ result.months_synced > 0

ChangedContracts(results) ==
    {results[k].contract_id : k \in {j \in 1..Len(results) : Changed(results[j])}}

IsListOf(ids, S) ==
    /\ Len(ids) = Cardinality(S)
    /\ {ids[k] : k \in 1..Len(ids)} = S

\* C15: a run of _run_sync calls the notification sink exactly when the sink
\* is configured and some contract's result has hourly_days_synced > 0 or
\* months_synced > 0, with the list of exactly those contracts; a run that
\* changed nothing, a run with the sink not configured and the per-contract
\* route send nothing.
C15_NotifiesExactlyChangedContracts ==
    \A t \in Tasks :
        LET l == task[t]
            ids == CHOOSE x \in l.notified : TRUE
        IN /\ l.pc = "notify" =>
                  /\ l.in_run_sync /\ settings.ha_configured
                  /\ l.notified # None
           /\ l.notified # None =>
                  /\ settings.ha_configured
                  /\ ChangedContracts(l.results) # {}
                  /\ IsListOf(ids, ChangedContracts(l.results))
           /\ (l.pc = "done" /\ l.ended \in {"results", "errors"}) =>
                  (l.notified # None <=>
                      (settings.ha_configured /\ ChangedContracts(l.results) # {}))
           /\ (l.pc = "done" /\ l.route = "sync_contract") => l.notified = None

\* A finished run over two contracts of which one changed: the sink got that
\* one contract.
C15_Witness ==
    /\ task["r1"].pc = "done"
    /\ task["r1"].ended \in {"results", "errors"}
    /\ Len(task["r1"].results) = 2
    /\ Cardinality(ChangedContracts(task["r1"].results)) = 1
    /\ task["r1"].notified # None

\* The background task leaves _check_needs_backfill (not by cancellation).
LeavesBackfillCheck ==
    /\ task["bg"].pc = "check_backfill"
    /\ task["bg"].pc' \notin {"check_backfill", "cancelled"}

\* Some discovered contract has no row at all; nothing is discovered when the
\* check failed.
SomeContractWithoutRows ==
    /\ faults' = faults
    /\ \E k \in 1..Len(upstream_accounts) :
           \A r \in BagToSet(usage_data) : r.contract_id # upstream_accounts[k]

\* The initial sync has started as the kind the check asks for.
InitialSyncStarted ==
    LET l == task["bg"]'
    IN /\ l.in_run_sync /\ l.pc \in SyncBodyPcs \cup {"accounts"}
       /\ _sync_running'
       /\ l.adaptive = SomeContractWithoutRows
       /\ l.months = IF l.adaptive THEN BackfillMonths ELSE settings.regular_sync_months
       /\ l.days = IF l.adaptive THEN max_days_of(settings) ELSE settings.regular_sync_days

\* The order of the loop: the check follows the warm-up, an interval sleep
\* follows a _run_sync call (one that ran, or one that was rejected).
LoopOrder ==
    /\ (task["bg"].pc' = "check_backfill" /\ task["bg"].pc # "check_backfill") =>
           task["bg"].pc = "warmup"
    /\ (task["bg"].pc' = "interval" /\ task["bg"].pc # "interval") =>
           \/ task["bg"].in_run_sync
           \/ task["bg"].pc = "check_backfill" /\ _sync_running

LoopRunning ==
    /\ task["bg"].route = "background"
    /\ task["bg"].pc \notin {"idle", "cancelled"}
    /\ ~task["bg"].cancel_requested

\* C17: while it is not cancelled the background loop does not terminate:
\* whatever the last sync did (ran, failed, raised, was rejected because
\* another sync was running), the loop calls _run_sync again, and a call
\* after an interval sleep is a regular-window sync.
C17_LoopKeepsSyncing ==
    /\ [][(task["bg"].pc = "interval" /\ task["bg"].pc' \notin {"interval", "cancelled"})
          => /\ task["bg"].in_run_sync'
             /\ ~task["bg"].adaptive'
             /\ task["bg"].days' = settings.regular_sync_days
             /\ task["bg"].months' = settings.regular_sync_months]_vars
    /\ \A p \in {0, 1} :
           (LoopRunning /\ returned.attempts = p)
               ~> (~LoopRunning \/ returned.attempts # p)

\* The loop sleeps again after a call that was rejected; an earlier call of
\* the same loop raised.
C17_Witness ==
    /\ task["bg"].pc = "interval"
    /\ task["bg"].ended = "rejected"
    /\ ~task["bg"].cancel_requested
    /\ task["r1"].in_run_sync
    /\ returned.attempts = 1
    /\ faults > 0

\* sync_all_contracts_adaptive starts: a task enters an adaptive _run_sync.
AdaptiveBatchStarts ==
    \E t \in Tasks : /\ ~task[t].in_run_sync
                     /\ task[t].pc \in {"idle", "check_backfill"}
                     /\ task[t]'.in_run_sync /\ task[t]'.adaptive

\* The contracts task record l is syncing.
ContractsOf(l) == {l.clist[k] : k \in 1..Len(l.clist)}

\* A task that takes this step is in an adaptive backfill of contract c.
AdaptiveBackfillOf(c) ==
    \E t \in Tasks : /\ task[t]' # task[t]
                     /\ task[t].adaptive \/ task[t]'.adaptive
                     /\ c \in ContractsOf(task[t]) \cup ContractsOf(task[t]')

\* C18: an entry of the progress map disappears only in a step that starts
\* sync_all_contracts_adaptive, and it takes another value only in a step of
\* an adaptive backfill of its own contract: no other sync, trigger or status
\* query removes or resets it.
C18_ProgressEntriesKept ==
    [][\A c \in DOMAIN _backfill_progress :
           /\ c \notin DOMAIN _backfill_progress' => AdaptiveBatchStarts
           /\ (c \in DOMAIN _backfill_progress'
                  /\ _backfill_progress'[c] # _backfill_progress[c])
                  => AdaptiveBackfillOf(c)]_vars

\* A regular sync of all contracts is at work on c2 while the progress entry
\* of an earlier adaptive backfill of c2 is still in the map.
C18_Witness ==
    /\ "c2" \in DOMAIN _backfill_progress
    /\ _backfill_progress["c2"].status = "completed"
    /\ task["r1"].route = "sync_all"
    /\ task["r1"].in_run_sync /\ ~task["r1"].adaptive
    /\ task["r1"].clist # <<>> /\ Contract(task["r1"]) = "c2"

\* C19: a POST /sync/backfill/adaptive that was neither rejected because a
\* sync was running nor refused for an invalid start_date answers "completed"
\* with one result per discovered contract.
C19_AdaptiveAllCompletes ==
    \A t \in Requests :
        (/\ task[t].route = "adaptive_all" /\ task[t].pc = "done"
         /\ task[t].response \notin {"already_running", "error"})
            => /\ task[t].response = "completed"
               /\ Len(task[t].results) = Len(upstream_accounts)

\* The request was accepted while no sync was running, and its handler raised.
C19_Witness ==
    /\ task["r1"].route = "adaptive_all" /\ task["r1"].pc = "done"
    /\ task["r1"].response = "raised"
    /\ ~_sync_running

\* The HTTP status of an answered request: an exception that leaves the
\* handler meets general_exception_handler, an answer is a 200.
StatusCode(l) == IF l.response = "raised" THEN 500 ELSE 200

\* C20: a triggered sync during which the upstream call failed (get_accounts
\* raised, as it does when authentication fails) is answered with status 503,
\* not with a generic failure and not with "completed".
C20_AuthFailureReaches503 ==
    \A t \in Requests :
        (task[t].pc = "done" /\ task[t].ended = "exception")
            => StatusCode(task[t]) = 503 /\ task[t].response # "completed"

\* POST /sync answered "completed" with no results after get_accounts raised.
C20_Witness ==
    /\ task["r1"].route = "sync_all" /\ task["r1"].pc = "done"
    /\ task["r1"].ended = "exception"
    /\ task["r1"].response = "completed" /\ task["r1"].results = <<>>

\* C21: a storage failure during a per-contract sync (has_data_for_date,
\* has_data_for_month or an upsert raised) leaves the operation: the sync ends
\* raising, and the failure is not turned into an entry of the errors after
\* which the loop goes on.
C21_StorageFailureAborts ==
    \A t \in Requests :
        LET l == task[t]
        IN (l.route \in {"sync_contract", "adaptive_contract"} /\ l.nraised >= 1)
               => /\ l.pc = "done" /\ l.response = "raised"
                  /\ l.stats.errors = <<>>

\* The check of the first month raised, the failure became an entry of the
\* errors, and the sync went on to answer "completed".
C21_Witness ==
    \E t \in Requests :
        /\ task[t].pc = "done" /\ task[t].response = "completed"
        /\ task[t].nraised = 1 /\ Len(task[t].stats.errors) = 1
        /\ task[t].stats.errors[1][1] = "Monthly"
        /\ task[t].month_calls = {}


\* ------------------------------------- month parameters (routes/usage.py)
\* The text of a query parameter is a sequence of one-character strings.
DigitChars == <<"0", "1", "2", "3", "4", "5", "6", "7", "8", "9">>

IsDigit(ch) == \E k \in 1..10 : DigitChars[k] = ch
DigitValue(ch) == (CHOOSE k \in 1..10 : DigitChars[k] = ch) - 1

\* str.strip() of the argument of int(): blanks at both ends are dropped.
RECURSIVE lstrip(_)
lstrip(text) ==
    IF text # <<>> /\ Head(text) = " " THEN lstrip(Tail(text)) ELSE text

RECURSIVE rstrip(_)
rstrip(text) ==
    IF text # <<>> /\ text[Len(text)] = " "
    THEN rstrip(SubSeq(text, 1, Len(text) - 1)) ELSE text

\* The value of a run of digits with single underscores between digits.
RECURSIVE DigitsValue(_, _)
DigitsValue(text, n) ==
    IF n = 0 THEN 0
    ELSE IF text[n] = "_" THEN DigitsValue(text, n - 1)
    ELSE DigitsValue(text, n - 1) * 10 + DigitValue(text[n])

IsIntBody(text) ==
    /\ text # <<>>
    /\ IsDigit(text[1]) /\ IsDigit(text[Len(text)])
    /\ \A k \in 1..Len(text) : IsDigit(text[k]) \/ text[k] = "_"
    /\ \A k \in 1..(Len(text) - 1) : ~(text[k] = "_" /\ text[k + 1] = "_")

\* int(text): blanks around the number and a sign before it are accepted;
\* None stands for ValueError.
py_int(text) ==
    LET stripped == rstrip(lstrip(text))
        signed == stripped # <<>> /\ stripped[1] \in {"+", "-"}
        body == IF signed THEN Tail(stripped) ELSE stripped
    IN IF ~IsIntBody(body) THEN None
       ELSE IF signed /\ stripped[1] = "-" THEN Some(0 - DigitsValue(body, Len(body)))
       ELSE Some(DigitsValue(body, Len(body)))

IntOf(opt) == CHOOSE x \in opt : TRUE

\* _validate_month_format(month): "ok" or "ValueError".
_validate_month_format(month) ==
    IF Len(month) # 7 \/ month[5] # "-" THEN "ValueError"
    ELSE LET year == py_int(SubSeq(month, 1, 4))
             month_num == py_int(SubSeq(month, 6, 7))
         IN IF year = None \/ month_num = None THEN "ValueError"
            ELSE IF ~(1 <= IntOf(month_num) /\ IntOf(month_num) <= 12) THEN "ValueError"
            ELSE IF ~(2000 <= IntOf(year) /\ IntOf(year) <= 2100) THEN "ValueError"
            ELSE "ok"

\* The month directive of strptime, (1[0-2]|0[1-9]|[1-9]): the number of
\* characters it takes from the front of the text, 0 when it does not match.
MonthDirective(text) ==
    IF Len(text) >= 2 /\ text[1] = "1" /\ text[2] \in {"0", "1", "2"} THEN 2
    ELSE IF Len(text) >= 2 /\ text[1] = "0" /\ IsDigit(text[2]) /\ text[2] # "0" THEN 2
    ELSE IF Len(text) >= 1 /\ IsDigit(text[1]) /\ text[1] # "0" THEN 1
    ELSE 0

\* The first day of month `month` of year `year`; the calendar of the model
\* counts the months of 2024 from 1.
DateOfMonth(year, month) == ((year - 2024) * 12 + month) * MonthLen

\* datetime.strptime(text, "%Y-%m").date() of a request text: four digits, a
\* dash, the month directive and nothing after it; None stands for ValueError.
strptime_text(text) ==
    IF Len(text) < 5 \/ (\E k \in 1..4 : ~IsDigit(text[k])) \/ text[5] # "-" THEN None
    ELSE LET rest == SubSeq(text, 6, Len(text))
             n == MonthDirective(rest)
         IN IF n = 0 \/ n # Len(rest) THEN None
            ELSE Some(DateOfMonth(DigitsValue(text, 4), DigitsValue(rest, n)))

\* f"monthly:{contract_id}:{start_month}:{end_month}" of get_monthly_usage.
MonthlyRangeKey(contract_id, start_month, end_month) ==
    <<"monthly", contract_id, start_month, end_month>>

\* The while loop of get_monthly_usage from `current` to `end`: every month is
\* read from the store and fetched when the store has no aggregate; reads
\* and calls count the store reads and the upstream calls.
RECURSIVE MonthRange(_, _, _, _, _)
MonthRange(acc, up, contract_id, current, end) ==
    IF current > end THEN acc
    ELSE LET month_str == strftime_Ym(current)
             stored == get_monthly_aggregate_from_db(acc.s.table, contract_id, month_str)
             r == _get_month_aggregate(acc.s, up, contract_id, month_str)
             step == [s |-> r.s,
                      out |-> IF r.out = None THEN acc.out
                              ELSE Append(acc.out, IntOf(r.out)),
                      reads |-> acc.reads + 1,
                      calls |-> acc.calls + (IF stored = None THEN 1 ELSE 0)]
         IN With(step, LAMBDA a :
                MonthRange(a, up, contract_id, EndOfMonth(current) + 1, end))

\* UsageService.get_monthly_usage(contract_id, start_month, end_month).
get_monthly_usage(s, up, contract_id, start_month, end_month) ==
    LET key == MonthlyRangeKey(contract_id, start_month, end_month)
        current == strptime_text(start_month)
        end == strptime_text(end_month)
        idle == [s |-> s, out |-> <<>>, reads |-> 0, calls |-> 0]
    IN IF key \in DOMAIN s.cache
       THEN [idle EXCEPT !.out = s.cache[key]] @@ [raised |-> "none"]
       ELSE IF current = None \/ end = None THEN idle @@ [raised |-> "ValueError"]
       ELSE With(MonthRange(idle, up, contract_id, IntOf(current), IntOf(end)),
                 LAMBDA r : [r EXCEPT !.s.cache = MapSet(r.s.cache, key, r.out)]
                            @@ [raised |-> "none"])

\* GET /contracts/{contract_id}/usage/monthly?start=..&end=..: 422 when a
\* parameter does not validate, 502 when the service raised, else 200.
route_get_monthly_usage(s, up, contract_id, start, end) ==
    IF _validate_month_format(start) = "ValueError"
       \/ _validate_month_format(end) = "ValueError"
    THEN [s |-> s, status |-> 422, invoked |-> FALSE, reads |-> 0, calls |-> 0,
          months |-> <<>>]
    ELSE With(get_monthly_usage(s, up, contract_id, start, end),
              LAMBDA r : [s |-> r.s, status |-> IF r.raised = "none" THEN 200 ELSE 502,
                          invoked |-> TRUE, reads |-> r.reads, calls |-> r.calls,
                          months |-> r.out])

\* current.strftime("%Y-%m") of a month of 2024 as a request writes it.
MonthText(m) ==
    <<"2", "0", "2", "4", "-", DigitChars[(m \div 10) + 1], DigitChars[(m % 10) + 1]>>

\* The parameters requests send: this month and the month before, well
\* formed, and texts that are not of the form YYYY-MM.
MalformedTexts ==
    {<<"2", "0", "2", "4", "-", "1">>,
     <<"2", "0", "2", "4", "-", "1", "3">>,
     <<"2", "0", "2", "4", "/", "0", "1">>,
     <<"1", "9", "9", "9", "-", "0", "1">>,
     <<"2", "0", "2", "4", "-", "+", "1">>,
     <<"2", "0", "2", "4", "-", "1", " ">>,
     <<"a", "b", "c", "d", "-", "0", "1">>}

MonthTexts ==
    {MonthText(MonthOf(Today) - k) : k \in {0, 1}} \cup MalformedTexts

MonthlyUpstreams == {Upstream({}, 0), Upstream({}, Today - 1)}

\* The table before the requests: empty, or with the days of this month.
MonthlyTables == {EmptyBag, WithDaily(EmptyBag, FirstOfMonth(Today))}

InitMonthly ==
    /\ _sync_running = FALSE
    /\ _sync_task = "none"
    /\ _backfill_progress = EmptyMap
    /\ usage_data \in MonthlyTables
    /\ cache = EmptyMap
    /\ settings = Settings(1, 1, 0, 1, 1, FALSE)
    /\ task = [t \in Tasks |-> IdleTask]
    /\ written = EmptyMap
    /\ nupserts = 0
    /\ faults = 0
    /\ upstream_accounts = <<"c1">>
    /\ triggers = 0
    /\ api_payload \in MonthlyUpstreams
    /\ returned = NotCalled

\* One request of the monthly usage endpoint, from its first line to its response.
GetMonthlyUsage ==
    \E start \in MonthTexts, end \in MonthTexts :
        \E r \in {route_get_monthly_usage(St, api_payload, "c1", start, end)} :
           /\ Apply(r.s)
           /\ returned' = [fn |-> "route_get_monthly_usage", start |-> start, end |-> end,
                           before |-> [table |-> usage_data, cache |-> cache,
                                       running |-> _sync_running,
                                       progress |-> _backfill_progress],
                           res |-> [f \in DOMAIN r \ {"s"} |-> r[f]]]
           /\ UNCHANGED <<settings, written, nupserts, faults, upstream_accounts,
                          triggers, api_payload>>

NextMonthly == GetMonthlyUsage

SpecMonthly == InitMonthly /\ [][NextMonthly]_vars

\* A text of the form YYYY-MM: four digits, a dash, two digits, the month in
\* 01..12 and the year in 2000..2100.
IsYearMonth(text) ==
    /\ Len(text) = 7
    /\ \A k \in {1, 2, 3, 4, 6, 7} : IsDigit(text[k])
    /\ text[5] = "-"
    /\ DigitsValue(SubSeq(text, 6, 7), 2) \in 1..12
    /\ DigitsValue(text, 4) \in 2000..2100

MonthlyAnswered == returned.fn = "route_get_monthly_usage"

\* C22: a request of the monthly usage endpoint whose start or end is not of
\* the form YYYY-MM is answered 422 without the service being invoked: no
\* store read, no upstream call, the table, the cache, the running flag and
\* the progress map as they were.
C22_MalformedMonthRejectedFirst ==
    (MonthlyAnswered /\ ~(IsYearMonth(returned.start) /\ IsYearMonth(returned.end)))
        => /\ returned.res.status = 422
           /\ ~returned.res.invoked
           /\ returned.res.reads = 0 /\ returned.res.calls = 0
           /\ usage_data = returned.before.table
           /\ cache = returned.before.cache
           /\ _sync_running = returned.before.running
           /\ _backfill_progress = returned.before.progress

\* A parameter that is not of the form YYYY-MM passed the validator: the
\* service was invoked and its failure answered 502; the store was not read.
C22_Witness ==
    /\ MonthlyAnswered
    /\ ~IsYearMonth(returned.start)
    /\ returned.res.status = 502
    /\ returned.res.invoked
    /\ returned.res.reads = 0 /\ returned.res.calls = 0
    /\ usage_data = returned.before.table


\* --------------------------------------- reads of one day, with failures
\* The days requests ask for.
ReadDates == {Today, Today - 1}

\* What earlier syncs left of a day: nothing, one hour of it, two hours.
ReadDayConfigs == {<<>>, <<1>>, <<1, 2>>}

ReadTables ==
    {SetToBag(HourlyRows("c1", Today, a) \cup HourlyRows("c1", Today - 1, b)
              \cup HourlyRows("c2", Today, <<1, 2>>)) :
        a \in ReadDayConfigs, b \in ReadDayConfigs}

ReadUpstreams ==
    {Upstream({}, 0), Upstream({Today - 1}, Today - 1), Upstream(ReadDates, Today)}

\* The step that fails during a read, if any.
ReadFaults ==
    {NoFault}
    \cup {ReadFault(at, 0) : at \in {"total_read", "hours_read", "accounts", "client"}}
    \cup {ReadFault("upsert", k) : k \in 0..(HoursPerDay - 1)}

InitRead ==
    /\ _sync_running = FALSE
    /\ _sync_task = "none"
    /\ _backfill_progress = EmptyMap
    /\ usage_data \in ReadTables
    /\ cache = EmptyMap
    /\ settings = Settings(1, 1, 0, 1, 1, FALSE)
    /\ task = [t \in Tasks |-> IdleTask]
    /\ written = EmptyMap
    /\ nupserts = 0
    /\ faults = 0
    /\ upstream_accounts = <<"c1">>
    /\ triggers = 0
    /\ api_payload \in ReadUpstreams
    /\ returned = NotCalled

Called(fn, target_date, fault, r) ==
    [fn |-> fn, date |-> target_date, fault |-> fault,
     before |-> [table |-> usage_data, cache |-> cache],
     res |-> [f \in DOMAIN r \ {"s"} |-> r[f]]]

\* One call of UsageService.get_hourly_usage, from its first line to its
\* return or to the exception that leaves it.
GetHourlyUsage ==
    \E target_date \in ReadDates, fault \in ReadFaults :
        \E r \in {get_hourly_usage(St, api_payload, "c1", target_date, fault)} :
           /\ Apply(r.s)
           /\ returned' = Called("get_hourly_usage", target_date, fault, r)
           /\ UNCHANGED <<settings, written, nupserts, faults, upstream_accounts,
                          triggers, api_payload>>

\* One call of UsageService._get_daily_total.
GetDailyTotal ==
    \E target_date \in ReadDates, fault \in ReadFaults :
        \E r \in {_get_daily_total(St, api_payload, "c1", target_date, fault)} :
           /\ Apply(r.s)
           /\ returned' = Called("_get_daily_total", target_date, fault, r)
           /\ UNCHANGED <<settings, written, nupserts, faults, upstream_accounts,
                          triggers, api_payload>>

NextRead == GetHourlyUsage \/ GetDailyTotal

SpecRead == InitRead /\ [][NextRead]_vars

\* The stored hourly rows of a contract on one day, by the row's own date.
HourlyRowsOn(table, contract_id, d) ==
    {r \in BagToSet(table) :
        r.contract_id = contract_id /\ r.interval = "hourly"
        /\ fromisoformat(r.date)[1] = d}

\* The total of the hours a read of the day hands out when the store has no
\* row of it: of the cached answer, else of what upstream holds.
TotalOfHours(hours) ==
    IF hours = <<>> THEN None
    ELSE Some(SumSeq(hours, Len(hours)))

ExpectedFromHourly(before, d) ==
    IF HourlyKey("c1", d) \in DOMAIN before.cache
    THEN TotalOfHours(before.cache[HourlyKey("c1", d)].hours)
    ELSE IF d \in api_payload.hourly THEN Some(HoursPerDay * UpstreamSample.value)
    ELSE None

\* C23: _get_daily_total never raises. When a step failed it returns None;
\* otherwise, when the store has hourly rows of the day it returns their
\* total, and when it has none it returns the total of the hours
\* get_hourly_usage hands out, None when there are no hours.
C23_DailyTotalNeverRaises ==
    returned.fn = "_get_daily_total" =>
        LET res == returned.res
            d == returned.date
            rows == HourlyRowsOn(returned.before.table, "c1", d)
            expected == ExpectedFromHourly(returned.before, d)
        IN /\ res.raised = "none"
           /\ res.failed # "none" => res.out = None
           /\ (res.failed = "none" /\ rows # {}) =>
                 /\ res.out # None
                 /\ ValueOf(res.out) = RowsValue(returned.before.table, rows).total
                 /\ usage_data = returned.before.table
           /\ (res.failed = "none" /\ rows = {}) =>
                 /\ (expected = None) <=> (res.out = None)
                 /\ (expected # None) =>
                        /\ ValueOf(res.out) = IntOf(expected)
                        /\ (CHOOSE x \in res.out : TRUE).date = Midnight(d)

\* A store failure in the middle of the fetch (one record written, then the
\* upsert raised) was caught: the answer is None and the record stays.
C23_Witness ==
    /\ returned.fn = "_get_daily_total"
    /\ returned.fault = ReadFault("upsert", 1)
    /\ returned.res.failed = "OperationalError"
    /\ returned.res.raised = "none"
    /\ returned.res.out = None
    /\ HourlyRowsOn(returned.before.table, "c1", returned.date) = {}
    /\ Cardinality(HourlyRowsOn(usage_data, "c1", returned.date)) = 1

\* The hours of the stored rows of a day, in the order of their dates.
StoredHours(table, d) ==
    get_hourly_data_for_date(table, "c1", d)

DayProcessed(t) ==
    /\ task[t].adaptive
    /\ task[t].pc \in {"h_check", "h_fetch"}
    /\ Len(task'[t].outcomes) = Len(task[t].outcomes) + 1

\* C25: in the hourly loop of the adaptive backfill a skipped day and a
\* non-empty fetch set the consecutive-empty counter to zero, an empty fetch
\* adds one, a day that raised leaves it as it was; the loop stops early in a
\* step only when that step is an empty fetch that brings the counter to the
\* threshold, and it leaves the loop before the last day only by that stop.
C25_CounterFollowsOutcomes ==
    [][\A t \in Requests :
          LET l == task[t]
              n == task'[t]
              T == settings.backfill_empty_days_threshold
              last == n.outcomes[Len(n.outcomes)]
          IN /\ DayProcessed(t) =>
                   /\ last \in {"skip", "data"} => n.consecutive_empty = 0
                   /\ last = "empty" => n.consecutive_empty = l.consecutive_empty + 1
                   /\ last = "error" => n.consecutive_empty = l.consecutive_empty
                   /\ n.stopped_at # None <=>
                          (last = "empty" /\ n.consecutive_empty >= T)
             /\ (l.adaptive /\ l.stopped_at = None /\ n.stopped_at # None) =>
                   /\ DayProcessed(t) /\ l.pc = "h_fetch"
                   /\ last = "empty"
                   /\ l.consecutive_empty < T /\ n.consecutive_empty = T
             /\ (l.adaptive /\ l.pc \in {"h_check", "h_fetch", "h_delay"}
                 /\ n.pc \notin {"h_check", "h_fetch", "h_delay"}
                 /\ Len(n.outcomes) < n.days) => n.stopped_at # None
             /\ (l.adaptive /\ l.pc \notin {"idle", "h_check", "h_fetch"}) =>
                   n.consecutive_empty = l.consecutive_empty]_vars

\* An empty fetch counted one, the next day raised and the counter stayed.
C25_Witness ==
    \E t \in Requests :
        /\ task[t].adaptive
        /\ Len(task[t].outcomes) = 2
        /\ task[t].outcomes[1] = "empty" /\ task[t].outcomes[2] = "error"
        /\ task[t].consecutive_empty = 1
        /\ settings.backfill_empty_days_threshold = 2
        /\ task[t].stopped_at = None


\* The dates of the days of the pass whose fetch returned records.
DataDates(l) ==
    {l.start_date - (k - 1) : k \in {j \in 1..Len(l.outcomes) : l.outcomes[j] = "data"}}

Earliest(S) == CHOOSE d \in S : \A e \in S : d <= e

\* C26: throughout an adaptive backfill, and so when it ends, oldest_data_date
\* is the earliest date of the pass whose fetch returned records, absent
\* when there is none (so never the date of a skipped, empty or failed day),
\* and a step of the pass never moves it to a later date or back to absent.
C26_OldestIsEarliestFetched ==
    [][\A t \in Requests :
          LET l == task[t]
              n == task'[t]
          IN n.adaptive =>
               /\ n.stats.oldest_data_date =
                      (IF DataDates(n) = {} THEN None ELSE Some(Earliest(DataDates(n))))
               /\ (l.adaptive /\ l.stats.oldest_data_date # None) =>
                      /\ n.stats.oldest_data_date # None
                      /\ IntOf(n.stats.oldest_data_date) <= IntOf(l.stats.oldest_data_date)]_vars

\* A pass that ended with a skipped day between two fetched days and an
\* empty day after them: the date is that of the third day.
C26_Witness ==
    \E t \in Requests :
        /\ task[t].adaptive /\ task[t].pc = "done"
        /\ Len(task[t].outcomes) = 4
        /\ task[t].outcomes[1] = "data" /\ task[t].outcomes[2] = "skip"
        /\ task[t].outcomes[3] = "data" /\ task[t].outcomes[4] = "empty"
        /\ task[t].stats.oldest_data_date = Some(task[t].start_date - 2)


\* ------------------------------- one adaptive backfill, any number of failures
\* The configurations: a positive day cap, and the cap left at 0 (the default
\* of config.py), for which the pass may take 730 days.
TermSettings ==
    {Settings(md, th, dl, 1, 1, FALSE) :
        md \in 1..MaxBackfillDays, th \in {1, MaxThreshold}, dl \in {0, 1}}
    \cup {Settings(0, MaxThreshold, 0, 1, 1, FALSE)}

\* The table before the pass: empty, or with today, a day of the backfill
\* window and the days of this month stored.
TermTables ==
    {EmptyBag,
     WithDaily(WithHourly(WithHourly(EmptyBag, Today), Today - 6), FirstOfMonth(Today))}

\* The pass of the default cap is followed along the runs in which no day
\* ends it early: the store fails at every check, or (forced) upstream has
\* records for every day.
LongPass == settings.backfill_max_days <= 0

InitTerm ==
    /\ _sync_running = FALSE
    /\ _sync_task = "none"
    /\ _backfill_progress = EmptyMap
    /\ usage_data \in TermTables
    /\ cache = EmptyMap
    /\ settings \in TermSettings
    /\ task = [t \in Tasks |-> IdleTask]
    /\ written = EmptyMap
    /\ nupserts = 0
    /\ faults = 0
    /\ upstream_accounts = <<"c1">>
    /\ triggers = 0
    /\ api_payload = NoPayload
    /\ returned = NotCalled

\* A failure of the step, with no limit on their number.
Fails(f) == faults' = IF f THEN faults + 1 ELSE faults

TermRequest(t) ==
    /\ At(t, "idle")
    /\ \E force \in BOOLEAN :
           Apply(trigger_adaptive_backfill_contract(St, t, "c1", force,
                                                    StartDate("none", 0)))
    /\ Frame /\ UNCHANGED faults /\ Trigger

TermHourlyChecked(t) ==
    /\ At(t, "h_check")
    /\ \E raised \in (IF LongPass THEN {TRUE} ELSE BOOLEAN) :
           Fails(raised) /\ Apply(HourlyChecked(St, t, raised))
    /\ Frame /\ UNCHANGED triggers

TermHourlyFetched(t) ==
    /\ At(t, "h_fetch")
    /\ \E payload \in (IF LongPass THEN {"records"} ELSE UpstreamPayloads),
          raised \in (IF LongPass THEN {FALSE} ELSE BOOLEAN) :
           /\ raised => payload = "records"
           /\ Fails(raised \/ payload = "fail")
           /\ Apply(HourlyFetched(St, t, payload, raised, 0))
    /\ Frame /\ UNCHANGED triggers

\* The awaits of the hourly loop return or raise.
HourlyLoopStep(t) ==
    \/ TermHourlyChecked(t)
    \/ TermHourlyFetched(t)
    \/ OnHourlyDelayed(t)

MonthlyLoopStep(t) ==
    \/ OnMonthlyChecked(t, {FALSE})
    \/ OnMonthlyFetched(t, {"records", "empty"}, {0})
    \/ OnMonthlyDelayed(t)

NextTerm ==
    \/ TermRequest("r1")
    \/ HourlyLoopStep("r1")
    \/ MonthlyLoopStep("r1")

InHourlyLoop(t) == task[t].pc \in {"h_check", "h_fetch", "h_delay"}

\* Every upstream call, store call and sleep of the pass returns (or raises):
\* asyncio resumes the task. The fairness of the store and upstream awaits is
\* written with its enabling condition, InHourlyLoop.
TermFairness ==
    /\ WF_vars(OnHourlyDelayed("r1"))
    /\ ([]<>(~InHourlyLoop("r1")) \/ []<><<HourlyLoopStep("r1")>>_vars)

SpecTerm == InitTerm /\ [][NextTerm]_vars /\ TermFairness

OrderSettings ==
    {Settings(md, th, dl, 1, 1, FALSE) :
        md \in {2, 3}, th \in {1, MaxThreshold}, dl \in {0, 1}}

\* What earlier syncs left: nothing, or a day of the backfill window of c1.
OrderTables == {EmptyBag, WithHourly(EmptyBag, Today - 6)}

InitOrder ==
    /\ _sync_running = FALSE
    /\ _sync_task = "none"
    /\ _backfill_progress = EmptyMap
    /\ usage_data \in OrderTables
    /\ cache = EmptyMap
    /\ settings \in OrderSettings
    /\ task = [t \in Tasks |-> IdleTask]
    /\ written = EmptyMap
    /\ nupserts = 0
    /\ faults = 0
    /\ upstream_accounts = <<"c1", "c2">>
    /\ triggers = 0
    /\ api_payload = NoPayload
    /\ returned = NotCalled

NextOrder ==
    \/ ReqBackfillAll("r1")
    \/ ReqAdaptiveContract("r1", Contracts)
    \/ OnAccountsFetched("r1")
    \/ OnHourlyChecked("r1", BOOLEAN)
    \/ OnHourlyFetched("r1", UpstreamPayloads, {0})
    \/ OnHourlyDelayed("r1")
    \/ OnMonthlyChecked("r1", {FALSE})
    \/ OnMonthlyFetched("r1", {"empty"}, {0})
    \/ OnMonthlyDelayed("r1")

SpecOrder == InitOrder /\ [][NextOrder]_vars

\* The step of task t that issues the upstream hourly call of a day.
HourlyCallIssued(t) ==
    /\ task'[t].pc = "h_fetch"
    /\ \/ task[t].pc # "h_fetch"
       \/ task'[t].i # task[t].i
       \/ task'[t].ci # task[t].ci

InPass(l) == l.pc \in {"h_check", "h_fetch", "h_delay", "m_check", "m_fetch", "m_delay"}

\* C28: in an adaptive pass of a contract the day index moves by one day at
\* a time and never back, the upstream call of a day is issued when every
\* earlier day of the pass has its outcome and is for a date earlier than
\* every date called before (so no date is called twice); a batch turns to
\* the next contract only in the step in which the pass of the contract
\* before returned its stats, and starts it at the start date again.
C28_BackwardOneDayAtATime ==
    [][\A t \in Requests :
          LET l == task[t]
              n == task'[t]
          IN n.adaptive =>
               /\ HourlyCallIssued(t) =>
                     /\ n.i = Len(n.outcomes)
                     /\ TargetDate(n) = n.start_date - Len(n.outcomes)
                     /\ \A d \in n.hourly_calls : d > TargetDate(n)
                     /\ Len(n.results) = n.ci - 1
               /\ (InPass(l) /\ InPass(n) /\ n.ci = l.ci) =>
                     /\ n.i \in {l.i, l.i + 1}
                     /\ l.hourly_calls \subseteq n.hourly_calls
                     /\ (l.pc = "h_fetch" /\ n.i # l.i) =>
                            n.hourly_calls = l.hourly_calls \cup {TargetDate(l)}
               /\ (InPass(l) /\ n.ci # l.ci) =>
                     /\ n.ci = l.ci + 1
                     /\ Len(n.results) = l.ci
                     /\ n.results[l.ci].contract_id = l.clist[l.ci]
                     /\ n.i = 0 /\ n.outcomes = <<>> /\ n.hourly_calls = {}]_vars

\* The pass of the first contract returned after fetching its days; the
\* second contract's pass is at its second day, its first day called.
C28_Witness ==
    \E t \in Requests :
        /\ task[t].adaptive /\ task[t].in_run_sync
        /\ task[t].ci = 2 /\ task[t].pc = "h_fetch" /\ task[t].i = 1
        /\ Len(task[t].results) = 1
        /\ task[t].results[1].hourly_days_synced >= 2
        /\ task[t].hourly_calls = {task[t].start_date}


\* ------------------------------------ a regular sync over older stored rows
\* The table before the sync: empty, or with older readings of today, of
\* yesterday and of a day before the window, and of the days of this month.
OlderRows ==
    HourlyRows("c1", Today, <<1, 1>>) \cup HourlyRows("c1", Today - 1, <<1>>)
    \cup HourlyRows("c1", Today - MaxDaysBack - 1, <<1>>)
    \cup DailyRows("c1", FirstOfMonth(Today), <<1>>)

ForceTables == {EmptyBag, SetToBag(OlderRows)}

InitForce ==
    /\ _sync_running = FALSE
    /\ _sync_task = "none"
    /\ _backfill_progress = EmptyMap
    /\ usage_data \in ForceTables
    /\ cache = EmptyMap
    /\ settings = Settings(1, 1, 0, 1, 1, FALSE)
    /\ task = [t \in Tasks |-> IdleTask]
    /\ written = EmptyMap
    /\ nupserts = 0
    /\ faults = 0
    /\ upstream_accounts = <<"c1">>
    /\ triggers = 0
    /\ api_payload = NoPayload
    /\ returned = NotCalled

NextForce ==
    \/ ReqSyncContract("r1", {"c1"}, 1..MaxDaysBack, 0..MaxMonths)
    \/ OnHourlyChecked("r1", BOOLEAN)
    \/ OnHourlyFetched("r1", UpstreamPayloads, {0, 1})
    \/ OnMonthlyChecked("r1", BOOLEAN)
    \/ OnMonthlyFetched("r1", UpstreamPayloads, {0, 1})

SpecForce == InitForce /\ [][NextForce]_vars

\* The rows stored under the key of hour h of day d / of day d.
HourRows(table, c, d, h) == RowsWithKey(table, <<c, isoformat(<<d, h>>), "hourly">>)
DayRows(table, c, d) == RowsWithKey(table, <<c, isoformat(Midnight(d)), "daily">>)

IsUpstreamRow(rows, table) ==
    /\ Cardinality(rows) = 1
    /\ \A r \in rows : MeasuredOf(r) = UpstreamSample /\ CopiesIn(r, table) = 1

ReaderIdle ==
    [fn |-> "get_hourly_usage", pc |-> "idle", date |-> Today, after_sync |-> FALSE,
     out |-> None]

InitRace ==
    /\ _sync_running = FALSE
    /\ _sync_task = "none"
    /\ _backfill_progress = EmptyMap
    /\ usage_data = EmptyBag
    /\ cache = EmptyMap
    /\ settings = Settings(1, 1, 0, 1, 1, FALSE)
    /\ task = [t \in Tasks |-> IdleTask]
    /\ written = EmptyMap
    /\ nupserts = 0
    /\ faults = 0
    /\ upstream_accounts = <<"c1">>
    /\ triggers = 0
    /\ api_payload = NoPayload
    /\ returned = ReaderIdle

\* The days of the current pass of task t whose fetched hours were stored.
SyncedDates(l) ==
    {l.start_date - (k - 1) : k \in {j \in 1..Len(l.outcomes) : l.outcomes[j] = "data"}}

ReaderFrame ==
    UNCHANGED <<_sync_running, _sync_task, _backfill_progress, settings, task,
                written, nupserts, faults, upstream_accounts, triggers, api_payload>>

\* cached = self._cache.get(cache_key): the cached answer is returned, else
\* the call awaits get_hourly_data_for_date.
ReaderStart ==
    /\ returned.pc \in {"idle", "done"}
    /\ \E target_date \in ReadDates :
          LET key == HourlyKey("c1", target_date)
              call == [ReaderIdle EXCEPT
                          !.date = target_date,
                          !.after_sync = target_date \in SyncedDates(task["r1"])]
          IN returned' = IF key \in DOMAIN cache
                         THEN [call EXCEPT !.pc = "done", !.out = Some(cache[key])]
                         ELSE [call EXCEPT !.pc = "db_read"]
    /\ UNCHANGED <<usage_data, cache>>
    /\ ReaderFrame

\* The store read returned: with rows the result is computed, cached and
\* returned; without, the call awaits _fetch_hourly_from_api.
ReaderDbRead ==
    /\ returned.pc = "db_read"
    /\ LET hours == get_hourly_data_for_date(usage_data, "c1", returned.date)
           result == HourlyUsageData(returned.date, hours)
       IN IF not_hours(hours)
          THEN /\ returned' = [returned EXCEPT !.pc = "fetch"]
               /\ UNCHANGED cache
          ELSE /\ returned' = [returned EXCEPT !.pc = "done", !.out = Some(result)]
               /\ cache' = MapSet(cache, HourlyKey("c1", returned.date), result)
    /\ UNCHANGED usage_data
    /\ ReaderFrame

\* _fetch_hourly_from_api returned what upstream answered this call (an
\* upstream failure is an empty list): the records are stored, the result
\* is computed, cached and returned.
ReaderFetched ==
    /\ returned.pc = "fetch"
    /\ \E payload \in UpstreamPayloads :
          LET up == Upstream(IF payload = "records" THEN {returned.date} ELSE {}, 0)
              f == _fetch_hourly_from_api(St, up, "c1", returned.date, NoFault)
              result == HourlyUsageData(returned.date, f.hours)
          IN /\ usage_data' = f.s.table
             /\ cache' = MapSet(f.s.cache, HourlyKey("c1", returned.date), result)
             /\ returned' = [returned EXCEPT !.pc = "done", !.out = Some(result)]
    /\ ReaderFrame

SyncFrame == UNCHANGED <<settings, written, nupserts, upstream_accounts, api_payload>>

\* The steps of the sync beside the reader; `returned` is the reader's.
RaceSyncStep(t) ==
    \/ /\ At(t, "idle")
       /\ \E force \in BOOLEAN, days_back \in 1..MaxDaysBack :
              Apply(trigger_sync_contract(St, t, "c1", days_back, 0, force))
       /\ Trigger /\ UNCHANGED <<faults, returned>> /\ SyncFrame
    \/ /\ At(t, "h_check")
       /\ Apply(HourlyChecked(St, t, FALSE))
       /\ UNCHANGED <<faults, triggers, returned>> /\ SyncFrame
    \/ /\ At(t, "h_fetch")
       /\ \E payload \in UpstreamPayloads :
              Apply(HourlyFetched(St, t, payload, FALSE, 0))
       /\ UNCHANGED <<faults, triggers, returned>> /\ SyncFrame

NextRace ==
    \/ ReaderStart
    \/ ReaderDbRead
    \/ ReaderFetched
    \/ RaceSyncStep("r1")
    \/ NextRequest("r1")

SpecRace == InitRace /\ [][NextRace]_vars

\* C30: once a sync has stored the hours it fetched for a contract and day,
\* the cache holds no answer for that key other than the stored hours, and a
\* read that returns then returns the stored hours, whatever reads of the
\* same day ran beside the sync.
C30_NoAnswerOlderThanSync ==
    \A t \in Requests :
        \A d \in SyncedDates(task[t]) :
            LET key == HourlyKey("c1", d)
                stored == get_hourly_data_for_date(usage_data, "c1", d)
            IN /\ key \in DOMAIN cache => cache[key].hours = stored
               /\ (returned.pc = "done" /\ returned.date = d /\ returned.after_sync) =>
                      \A x \in returned.out : x.hours = stored

\* The sync stored the hours of today; the cache holds the empty answer of a
\* read that found no row before the sync wrote, and a read that started
\* after the sync had returned was answered from the cache with no hours.
C30_Witness ==
    \E t \in Requests :
        /\ task[t].pc = "done" /\ task[t].outcomes = <<"data">>
        /\ get_hourly_data_for_date(usage_data, "c1", Today) # <<>>
        /\ HourlyKey("c1", Today) \in DOMAIN cache
        /\ cache[HourlyKey("c1", Today)].hours = <<>>
        /\ returned.pc = "done" /\ returned.date = Today /\ returned.after_sync
        /\ returned.out = Some(cache[HourlyKey("c1", Today)])


\* ------------------------------------------------ the progress entries
\* Task t is in the hourly loop of sync_contract_data_adaptive.
InAdaptiveHourlyLoop(l) == l.adaptive /\ l.pc \in {"h_check", "h_fetch", "h_delay"}

\* In this step sync_contract_data_adaptive of task t returns its stats: the
\* task leaves the loops of its contract without being cancelled.
AdaptiveReturns(t) ==
    /\ task[t].adaptive /\ task[t].pc \in SyncBodyPcs
    /\ task[t]'.pc # "cancelled"
    /\ task[t]'.pc \notin SyncBodyPcs \/ task[t]'.ci # task[t].ci

\* In this step sync_all_contracts_adaptive of task t returns its results to
\* _run_sync.
AdaptiveBatchReturns(t) ==
    /\ task[t].adaptive /\ task[t].in_run_sync
    /\ task[t].pc \in SyncBodyPcs \cup {"accounts"}
    /\ \/ task[t]'.pc = "notify"
       \/ ~task[t]'.in_run_sync /\ task[t]'.ended \in {"results", "errors"}

\* C31: while a contract's adaptive backfill is in its hourly loop, the
\* progress entry of the contract has status in_progress and names the date
\* being processed; in the step in which sync_contract_data_adaptive returns
\* the entry has status completed; in the step in which
\* sync_all_contracts_adaptive returns the map holds one entry per discovered
\* contract and nothing else, each completed.
C31_ProgressFollowsBackfill ==
    [][\A t \in Tasks :
          /\ InAdaptiveHourlyLoop(task[t]') =>
                 /\ Contract(task[t]') \in DOMAIN _backfill_progress'
                 /\ _backfill_progress'[Contract(task[t]')].status = "in_progress"
                 /\ _backfill_progress'[Contract(task[t]')].current_date
                        = Some(TargetDate(task[t]'))
          /\ AdaptiveReturns(t) =>
                 /\ Contract(task[t]) \in DOMAIN _backfill_progress'
                 /\ _backfill_progress'[Contract(task[t])].status = "completed"
          /\ AdaptiveBatchReturns(t) =>
                 /\ DOMAIN _backfill_progress' = ContractsOf(task[t])
                 /\ \A c \in DOMAIN _backfill_progress' :
                        _backfill_progress'[c].status = "completed"]_vars

\* The adaptive backfill of c2 that a request started is in its hourly loop
\* and the progress map has no entry for c2: the initial sync of the
\* background loop has cleared the map and is at work on c1.
C31_Witness ==
    /\ task["r1"].route = "adaptive_contract"
    /\ InAdaptiveHourlyLoop(task["r1"]) /\ Contract(task["r1"]) = "c2"
    /\ task["bg"].in_run_sync /\ task["bg"].adaptive
    /\ "c2" \notin DOMAIN _backfill_progress


\* -------------------------------------------- the latest available day
\* The calendar day of a UsageData that a read returned.
DayOf(opt) == (CHOOSE x \in opt : TRUE).date[1]

\* C32: whenever _find_latest_available_data reports a latest_day, its value
\* is strictly positive and data_as_of is the date of that day; whenever it
\* also reports a previous_day, that is the calendar day immediately before
\* latest_day.
C32_LatestDayPositiveAndAdjacent ==
    SummaryComputed =>
        LET found == returned.res.locals
        IN /\ found.latest_day # None =>
                  /\ ValueOf(found.latest_day) > 0
                  /\ found.data_as_of = Some(strftime_Ymd(DayOf(found.latest_day)))
           /\ (found.latest_day # None /\ found.previous_day # None) =>
                  DayOf(found.previous_day) = DayOf(found.latest_day) - 1

\* The latest stored day has a zero total: it is reported as latest_day with
\* no data_as_of, and a later day that the search found is reported as
\* previous_day.
C32_Witness ==
    /\ SummaryComputed
    /\ returned.res.locals.latest_day # None
    /\ ValueOf(returned.res.locals.latest_day) = 0
    /\ returned.res.locals.data_as_of = None
    /\ returned.res.locals.previous_day # None
    /\ DayOf(returned.res.locals.previous_day) > DayOf(returned.res.locals.latest_day)


\* ------------------------------------------ the results of a batch
\* In this step sync_all_contracts or sync_all_contracts_adaptive of task t
\* returns its results to _run_sync.
BatchReturns(t) ==
    /\ task[t].in_run_sync /\ task[t].pc \in SyncBodyPcs \cup {"accounts"}
    /\ task[t]'.pc \in {"notify", "done"}
    /\ task[t]'.ended # "exception"

\* C33: sync_all_contracts and sync_all_contracts_adaptive return one stats
\* record per discovered contract, in discovery order; while a batch is at
\* work on a contract, the results hold the records of exactly the contracts
\* before it, and the batch turns to a contract only in the step in which
\* the sync of the contract before it returned its record.
C33_OneRecordPerContractInOrder ==
    [][\A t \in Requests :
          LET l == task[t]
              n == task[t]'
          IN /\ BatchReturns(t) => ContractIds(n.results) = upstream_accounts
             /\ (n.in_run_sync /\ InPass(n)) =>
                    /\ n.clist = upstream_accounts
                    /\ ContractIds(n.results) = SubSeq(n.clist, 1, n.ci - 1)
             /\ (l.in_run_sync /\ InPass(l) /\ n.results # l.results) =>
                    /\ n.results = Append(l.results, n.results[Len(n.results)])
                    /\ n.results[Len(n.results)].contract_id = Contract(l)
                    /\ n.results[Len(n.results)].errors
                           \in {l.stats.errors,
                                Append(l.stats.errors, <<"Monthly", MonthStr(l.j)>>)}
             /\ (l.in_run_sync /\ InPass(l) /\ InPass(n) /\ n.ci # l.ci) =>
                    /\ n.ci = l.ci + 1
                    /\ Len(n.results) = l.ci]_vars

\* A regular batch over two contracts has returned: two records, the first
\* of c1 with days synced, the second of c2.
C33_Witness ==
    /\ task["r1"].pc = "done" /\ task["r1"].route = "backfill_all"
    /\ ~task["r1"].adaptive /\ task["r1"].ended \in {"results", "errors"}
    /\ ContractIds(task["r1"].results) = <<"c1", "c2">>
    /\ task["r1"].results[1].hourly_days_synced >= 2


\* --------------------------------- the upstream client's active contract
\* The client of the library holds the contract and account its calls are
\* for; after authentication that is the first contract of the login.
ApiClient(contract_id, account_id) ==
    [kind |-> "client", contract_id |-> contract_id, account_id |-> account_id]

AccountId == "a1"

\* UsageService._find_account_for_contract: the account of the contract among
\* the discovered ones, else None.
_find_account_for_contract(contract_id, accounts) ==
    IF \E k \in 1..Len(accounts) : accounts[k] = contract_id
    THEN Some(AccountId) ELSE None

\* ContactApiWrapper.set_contract
set_contract(api, contract_id, account_id) ==
    [api EXCEPT !.contract_id = contract_id, !.account_id = account_id]

\* if account_id: await self._api.set_contract(contract_id, account_id)
EnsureContract(api, contract_id, accounts) ==
    LET account_id == _find_account_for_contract(contract_id, accounts)
    IN IF account_id # None
       THEN set_contract(api, contract_id, CHOOSE x \in account_id : TRUE)
       ELSE api

\* The contract ids of requests: the discovered ones and one that is not.
RequestedContracts == Contracts \cup {"c9"}

ClientDates == {Today}

\* The call in flight of a task, in the history `written`.
CallOf(t) == <<"call", t>>

\* The keys under which these records are stored.
KeysOf(contract_id, interval, records) ==
    {<<contract_id, isoformat(records[k].date), interval>> : k \in 1..Len(records)}

\* History of a step of the sync of task t: a step that ends at an upstream
\* call has made sure of the contract and issued the call with the client's
\* active contract; a step that stored records (under `keys`) stored what the
\* call in flight answered.
TrackCalls(t, keys) ==
    LET n == task'[t]
        issued == n.pc \in {"h_fetch", "m_fetch"}
        api == IF issued THEN EnsureContract(api_payload, Contract(n), upstream_accounts)
               ELSE api_payload
        w1 == [k \in DOMAIN written \cup keys |->
                  IF k \in keys THEN written[CallOf(t)] ELSE written[k]]
    IN /\ api_payload' = api
       /\ written' = IF issued THEN MapSet(w1, CallOf(t), api.contract_id)
                     ELSE MapDel(w1, CallOf(t))

ClientReaderIdle ==
    [fn |-> "get_hourly_usage", pc |-> "idle", contract_id |-> "c1", date |-> Today,
     call |-> "none", out |-> None]

InitClient ==
    /\ _sync_running = FALSE
    /\ _sync_task = "none"
    /\ _backfill_progress = EmptyMap
    /\ usage_data = EmptyBag
    /\ cache = EmptyMap
    /\ settings = Settings(1, 1, 0, 1, 1, FALSE)
    /\ task = [t \in Tasks |-> IdleTask]
    /\ written = EmptyMap
    /\ nupserts = 0
    /\ faults = 0
    /\ upstream_accounts = <<"c1", "c2">>
    /\ triggers = 0
    /\ api_payload = ApiClient("c1", AccountId)
    /\ returned = ClientReaderIdle

ClientFrame == UNCHANGED <<settings, nupserts, upstream_accounts, faults>>

\* POST /sync/{contract_id} and the awaits of its sync_contract_data.
ClientSyncStep(t) ==
    \/ /\ At(t, "idle")
       /\ \E c \in RequestedContracts, months \in {0, 1}, force \in BOOLEAN :
              Apply(trigger_sync_contract(St, t, c, 1, months, force))
       /\ TrackCalls(t, {})
       /\ Trigger /\ UNCHANGED returned /\ ClientFrame
    \/ /\ At(t, "h_check")
       /\ Apply(HourlyChecked(St, t, FALSE))
       /\ TrackCalls(t, {})
       /\ UNCHANGED <<triggers, returned>> /\ ClientFrame
    \/ /\ At(t, "h_fetch")
       /\ \E payload \in {"records", "empty"} :
              /\ Apply(HourlyFetched(St, t, payload, FALSE, 0))
              /\ TrackCalls(t, KeysOf(Contract(task[t]), "hourly",
                                      api_get_hourly_usage(payload, TargetDate(task[t]))))
       /\ UNCHANGED <<triggers, returned>> /\ ClientFrame
    \/ /\ At(t, "m_check")
       /\ Apply(MonthlyChecked(St, t, FALSE))
       /\ TrackCalls(t, {})
       /\ UNCHANGED <<triggers, returned>> /\ ClientFrame
    \/ /\ At(t, "m_fetch")
       /\ \E payload \in {"records", "empty"} :
              LET start == strptime_Ym(MonthStr(task[t].j))
              IN /\ Apply(MonthlyFetched(St, t, payload, FALSE, 0))
                 /\ TrackCalls(t, KeysOf(Contract(task[t]), "daily",
                                         api_get_monthly_usage(payload, start,
                                                               EndOfMonth(start))))
       /\ UNCHANGED <<triggers, returned>> /\ ClientFrame

ClientReadFrame ==
    UNCHANGED <<_sync_running, _sync_task, _backfill_progress, task, triggers>>

\* GET /contracts/{contract_id}/usage/hourly beside the sync, await by await:
\* the cache, the store read, then _fetch_hourly_from_api, which makes sure of
\* the contract, calls upstream and stores what the call answered.
ClientGetHourlyUsage ==
    \/ /\ returned.pc \in {"idle", "done"}
       /\ \E c \in RequestedContracts, target_date \in ClientDates :
             LET key == HourlyKey(c, target_date)
                 call == [ClientReaderIdle EXCEPT !.contract_id = c,
                                                  !.date = target_date]
             IN returned' = IF key \in DOMAIN cache
                            THEN [call EXCEPT !.pc = "done", !.out = Some(cache[key])]
                            ELSE [call EXCEPT !.pc = "db_read"]
       /\ UNCHANGED <<usage_data, cache, written, api_payload>>
       /\ ClientReadFrame /\ ClientFrame
    \/ /\ returned.pc = "db_read"
       /\ LET hours == get_hourly_data_for_date(usage_data, returned.contract_id,
                                                returned.date)
              result == HourlyUsageData(returned.date, hours)
              api == EnsureContract(api_payload, returned.contract_id, upstream_accounts)
          IN IF not_hours(hours)
             THEN /\ api_payload' = api
                  /\ returned' = [returned EXCEPT !.pc = "fetch",
                                                  !.call = api.contract_id]
                  /\ cache' = CacheAccounts(St).cache
             ELSE /\ returned' = [returned EXCEPT !.pc = "done", !.out = Some(result)]
                  /\ cache' = MapSet(cache, HourlyKey(returned.contract_id, returned.date),
                                     result)
                  /\ UNCHANGED api_payload
       /\ UNCHANGED <<usage_data, written>>
       /\ ClientReadFrame /\ ClientFrame
    \/ /\ returned.pc = "fetch"
       /\ \E payload \in {"records", "empty"} :
             LET hours == api_get_hourly_usage(payload, returned.date)
                 keys == KeysOf(returned.contract_id, "hourly", hours)
                 result == HourlyUsageData(returned.date, AsUsageData(hours))
             IN /\ usage_data' = StoreRecords(usage_data, returned.contract_id, "hourly",
                                              hours, Len(hours))
                /\ written' = [k \in DOMAIN written \cup keys |->
                                  IF k \in keys THEN returned.call ELSE written[k]]
                /\ cache' = MapSet(cache, HourlyKey(returned.contract_id, returned.date),
                                   result)
                /\ returned' = [returned EXCEPT !.pc = "done", !.out = Some(result)]
       /\ UNCHANGED api_payload
       /\ ClientReadFrame /\ ClientFrame

NextClient ==
    \/ ClientSyncStep("r1")
    \/ ClientGetHourlyUsage
    \/ NextRequest("r1")

SpecClient == InitClient /\ [][NextClient]_vars

\* C34: every stored usage record was answered by an upstream call that was
\* issued while the client's active contract was the contract id the record
\* is stored under.
C34_StoredUnderFetchedContract ==
    \A r \in BagToSet(usage_data) :
        /\ KeyOf(r) \in DOMAIN written
        /\ written[KeyOf(r)] = r.contract_id

\* A read of hourly usage for c9, which is not among the discovered
\* contracts, has returned hours and stored them under c9; the call that
\* answered them was issued with c2 as the client's active contract.
C34_Witness ==
    /\ returned.pc = "done" /\ returned.contract_id = "c9"
    /\ returned.call = "c2"
    /\ \E r \in BagToSet(usage_data) :
           /\ r.contract_id = "c9" /\ r.interval = "hourly"
           /\ written[KeyOf(r)] = "c2"
    /\ returned.out # None /\ (CHOOSE x \in returned.out : TRUE).hours # <<>>


\* ------------------------------------- syncs after a failed storage step
\* Regular and adaptive syncs of one contract, one after the other, over a
\* table that starts empty; an upsert of a fetch may raise after any number
\* of the records of the day have been stored.
InitPartial ==
    /\ _sync_running = FALSE
    /\ _sync_task = "none"
    /\ _backfill_progress = EmptyMap
    /\ usage_data = EmptyBag
    /\ cache = EmptyMap
    /\ settings \in {Settings(md, 1, 0, 1, 1, FALSE) : md \in 1..2}
    /\ task = [t \in Tasks |-> IdleTask]
    /\ written = EmptyMap
    /\ nupserts = 0
    /\ faults = 0
    /\ upstream_accounts = <<"c1">>
    /\ triggers = 0
    /\ api_payload = NoPayload
    /\ returned = NotCalled

NextPartial ==
    \/ ReqSyncContract("r1", {"c1"}, 1..MaxDaysBack, {0})
    \/ ReqAdaptiveContract("r1", {"c1"})
    \/ OnHourlyChecked("r1", {FALSE})
    \/ OnHourlyFetched("r1", UpstreamPayloads, 0..(HoursPerDay - 1))
    \/ OnMonthlyChecked("r1", {FALSE})
    \/ OnMonthlyFetched("r1", {"empty"}, {0})
    \/ NextRequest("r1")

SpecPartial == InitPartial /\ [][NextPartial]_vars

\* Every hourly record upstream returns for day d is a stored row of c.
DayComplete(table, c, d) ==
    LET hours == api_get_hourly_usage("records", d)
    IN \A h \in 1..Len(hours) :
           RowsWithKey(table, <<c, isoformat(hours[h].date), "hourly">>) # {}

\* C35: whenever has_data_for_date is true for a contract and day, every
\* hourly record upstream returned for the day in the fetch that wrote it is
\* stored; so a sync without force skips only days that are stored completely.
C35_SkipCheckSeesWholeDays ==
    \A c \in Contracts, d \in (Today - 8)..Today :
        has_data_for_date(usage_data, c, d, "hourly") => DayComplete(usage_data, c, d)

\* A sync without force has skipped today, of which a fetch of an earlier
\* sync stored the first record before its next upsert raised.
C35_Witness ==
    /\ task["r1"].pc = "done" /\ ~task["r1"].force /\ ~task["r1"].adaptive
    /\ task["r1"].start_date = Today
    /\ task["r1"].outcomes # <<>> /\ task["r1"].outcomes[1] = "skip"
    /\ task["r1"].stats.hourly_days_skipped >= 1
    /\ faults = 1
    /\ Cardinality(HourlyRowsOn(usage_data, "c1", Today)) = 1
    /\ ~DayComplete(usage_data, "c1", Today)


\* --------------------------------- summaries and ranges beside the syncs
\* Upstream has published nothing yet, or the hours of today and the daily
\* records up to the end of this month.
NothingPublished == Upstream({}, 0)
Published == Upstream({Today}, EndOfMonth(FirstOfMonth(Today)))

InitStale ==
    /\ _sync_running = FALSE
    /\ _sync_task = "none"
    /\ _backfill_progress = EmptyMap
    /\ usage_data = EmptyBag
    /\ cache = EmptyMap
    /\ settings = Settings(1, 1, 0, 1, 1, FALSE)
    /\ task = [t \in Tasks |-> IdleTask]
    /\ written = EmptyMap
    /\ nupserts = 0
    /\ faults = 0
    /\ upstream_accounts = <<"c1">>
    /\ triggers = 0
    /\ api_payload = NothingPublished
    /\ returned = NotCalled

\* Upstream publishes the usage of the last days.
Publish ==
    /\ api_payload = NothingPublished
    /\ api_payload' = Published
    /\ UNCHANGED <<_sync_running, _sync_task, _backfill_progress, usage_data, cache,
                   settings, task, written, nupserts, faults, upstream_accounts,
                   triggers, returned>>

\* What upstream answers a call of the sync.
PublishedPayload == IF api_payload = Published THEN "records" ELSE "empty"

\* GET /contracts/c1/usage/monthly over last month and this month, served by
\* get_monthly_usage from its first line to its return.
GetMonthlyRange ==
    \E r \in {get_monthly_usage(St, api_payload, "c1", MonthText(MonthOf(Today) - 1),
                                MonthText(MonthOf(Today)))} :
        /\ Apply(r.s)
        /\ returned' = [fn |-> "monthly_range", before |-> usage_data,
                        cached |-> MonthlyRangeKey("c1", MonthText(MonthOf(Today) - 1),
                                                   MonthText(MonthOf(Today)))
                                       \in DOMAIN cache,
                        out |-> r.out]
        /\ UNCHANGED <<settings, written, nupserts, faults, upstream_accounts,
                       triggers, api_payload>>

NextStale ==
    \/ Publish
    \/ GetSummary
    \/ GetMonthlyRange
    \/ ReqSyncContract("r1", {"c1"}, {1}, {1})
    \/ OnHourlyChecked("r1", {FALSE})
    \/ OnHourlyFetched("r1", {PublishedPayload}, {0})
    \/ OnMonthlyChecked("r1", {FALSE})
    \/ OnMonthlyFetched("r1", {PublishedPayload}, {0})
    \/ NextRequest("r1")

SpecStale == InitStale /\ [][NextStale]_vars

\* The sync of the request task has stored the hours of today / the daily
\* records of this month that it fetched.
SyncStoredToday == Today \in SyncedDates(task["r1"])
SyncStoredThisMonth ==
    /\ strftime_Ym(Today) \in task["r1"].month_calls
    /\ task["r1"].stats.months_synced >= 1

\* C36: a get_summary that returns after a sync has stored the hours of today
\* reports the stored total of today, and a get_monthly_usage over last month
\* and this month that returns after a sync has stored the days of this month
\* reports the stored aggregate of this month: neither returns a result
\* that was cached before the sync wrote.
C36_ReadsIncludeSyncedData ==
    [][/\ (returned' # returned /\ returned'.fn = "get_summary" /\ SyncStoredToday) =>
              returned'.res.out.today = get_daily_total_from_db(usage_data', "c1", Today)
       /\ (returned' # returned /\ returned'.fn = "monthly_range" /\ SyncStoredThisMonth) =>
              /\ returned'.out # <<>>
              /\ Some(returned'.out[Len(returned'.out)])
                     = get_monthly_aggregate_from_db(usage_data', "c1", strftime_Ym(Today))]_vars

\* The sync has stored the hours of today, and a get_summary that was called
\* after that was answered from the cache with no value for today.
C36_Witness ==
    /\ SyncStoredToday
    /\ get_daily_total_from_db(usage_data, "c1", Today) # None
    /\ returned.fn = "get_summary" /\ returned.res.cached
    /\ returned.before = usage_data
    /\ returned.res.out.today = None


\* ------------------------------------------ days_processed of a pass
\* C37: in a step of an adaptive backfill of a contract that rewrites the
\* contract's progress entry (the update at the top of the next day, or the
\* final update), days_processed does not decrease, also when days of the
\* pass raised errors.
C37_DaysProcessedNeverDecreases ==
    [][\A t \in Requests :
          LET l == task[t]
              c == Contract(l)
          IN (l.adaptive /\ InPass(l) /\ c \in DOMAIN _backfill_progress
                  /\ c \in DOMAIN _backfill_progress')
                 => _backfill_progress'[c].days_processed
                        >= _backfill_progress[c].days_processed]_vars

\* A pass in which two or more days raised has returned: its last update at
\* the top of a day wrote the index of its last day, and the final update
\* wrote a smaller days_processed, the days that raised not counted.
C37_Witness ==
    \E t \in Requests :
        /\ task[t].adaptive /\ task[t].pc = "done"
        /\ settings.backfill_max_days > 0
        /\ Len(task[t].stats.errors) >= 2
        /\ _backfill_progress["c1"].status = "completed"
        /\ _backfill_progress["c1"].days_processed < Len(task[t].outcomes) - 1


\* ------------------------------------------ the counters of a stats record
\* The error entries of the hourly loop / of the month loop.
HourlyErrors(stats) == Len(SelectSeq(stats.errors, LAMBDA e : e[1] = "Hourly"))
MonthlyErrors(stats) == Len(SelectSeq(stats.errors, LAMBDA e : e[1] = "Monthly"))

\* The days the hourly loop has processed, by its loop index: the days
\* before the current one, and the current one when the loop is in the
\* sleep after it or has stopped at it.
DaysProcessed(l) ==
    IF l.pc = "h_delay" \/ l.stopped_at # None THEN l.i + 1 ELSE l.i

\* The months the month loop has processed.
MonthsProcessed(l) == IF l.pc = "m_delay" THEN l.j + 1 ELSE l.j

Counters(stats) ==
    <<stats.hourly_days_synced, stats.hourly_days_skipped, stats.hourly_days_empty,
      stats.months_synced, stats.months_skipped, Len(stats.errors)>>

\* C38: in an adaptive backfill the days synced, skipped and empty and the
\* hourly error entries add up to the days the loop has processed, at most
\* max_days; in both sync kinds the months synced and skipped and the monthly
\* error entries add up to at most the months processed and at most
\* include_months; and no counter of a pass decreases.
C38_CountersAccountForEveryItem ==
    /\ [](\A t \in Requests :
            LET l == task[t]
                st == l.stats
            IN l.pc # "idle" =>
                 /\ l.adaptive =>
                       /\ st.hourly_days_synced + st.hourly_days_skipped
                              + st.hourly_days_empty + HourlyErrors(st) = DaysProcessed(l)
                       /\ DaysProcessed(l) <= max_days_of(settings)
                 /\ st.months_synced + st.months_skipped + MonthlyErrors(st)
                        <= MonthsProcessed(l)
                 /\ MonthsProcessed(l) <= l.months)
    /\ [][\A t \in Requests :
             task[t].pc # "idle" =>
                 \A k \in 1..6 : Counters(task[t]'.stats)[k] >= Counters(task[t].stats)[k]]_vars

\* An adaptive pass has returned in which a day was synced, a day was skipped
\* or empty and a day raised: three days, three counts.
C38_Witness ==
    \E t \in Requests :
        /\ task[t].adaptive /\ task[t].pc = "done"
        /\ task[t].stats.hourly_days_synced >= 1
        /\ task[t].stats.hourly_days_skipped + task[t].stats.hourly_days_empty >= 1
        /\ HourlyErrors(task[t].stats) >= 1
        /\ DaysProcessed(task[t]) >= 3


\* ------------------------------------------ the life of the background task
\* The asyncio tasks that create_task can return in one run.
LoopTasks == {"bg", "bg2"}

\* The calls of start_background_sync and stop_background_sync so far: the
\* last call, and the last call that changed something.
NoCalls == [fn |-> "lifespan", call |-> "none", last_effective |-> "none"]

InitLifecycle ==
    /\ _sync_running = FALSE
    /\ _sync_task = "none"
    /\ _backfill_progress = EmptyMap
    /\ usage_data = EmptyBag
    /\ cache = EmptyMap
    /\ settings = Settings(1, 1, 1, 1, 1, TRUE)
    /\ task = [t \in LoopTasks |-> IdleTask]
    /\ written = EmptyMap
    /\ nupserts = 0
    /\ faults = 0
    /\ upstream_accounts = <<"c1">>
    /\ triggers = 0
    /\ api_payload = NoPayload
    /\ returned = NoCalls

\* The coroutine of task t has started and has not ended: a task whose
\* cancellation was requested exists until the CancelledError is raised in it.
TaskExists(t) == task[t].pc \notin {"idle", "cancelled"}

LifecycleFrame ==
    UNCHANGED <<settings, written, nupserts, upstream_accounts, api_payload,
                faults, triggers>>

\* A call of start_background_sync at any moment; create_task, when the call
\* reaches it, returns a task that does not exist yet.
CallStart ==
    /\ \E t \in {u \in LoopTasks : ~TaskExists(u)} :
          \E s \in {start_background_sync(St, t)} :
              /\ Apply(s)
              /\ returned' = [returned EXCEPT
                                 !.call = "start",
                                 !.last_effective = IF s # St THEN "start" ELSE @]
    /\ LifecycleFrame

\* A call of stop_background_sync at any moment.
CallStop ==
    /\ \E s \in {stop_background_sync(St)} :
          /\ Apply(s)
          /\ returned' = [returned EXCEPT
                             !.call = "stop",
                             !.last_effective = IF s # St THEN "stop" ELSE @]
    /\ LifecycleFrame

\* What the event loop does for a background task.
LifecycleStep(t) ==
    \/ OnWarmupDone(t)
    \/ OnBackfillChecked(t)
    \/ OnIntervalDone(t)
    \/ OnAccountsFetched(t)
    \/ OnHourlyChecked(t, {FALSE})
    \/ OnHourlyFetched(t, {"records", "empty"}, {0})
    \/ OnMonthlyChecked(t, {FALSE})
    \/ OnMonthlyFetched(t, {"records", "empty"}, {0})
    \/ OnCancelled(t)

NextLifecycle ==
    \/ CallStart
    \/ CallStop
    \/ \E t \in LoopTasks : LifecycleStep(t)

SpecLifecycle == InitLifecycle /\ [][NextLifecycle]_vars

\* A call of start or stop was made in the step.
CallMade(name) == returned'.call = name /\ returned' # returned

\* C39: at most one background task exists at any time; a start while a task
\* is registered changes nothing; an effective stop requests the cancellation
\* of the registered task and clears the reference; and a task is registered
\* exactly when the last effective call was a start.
C39_AtMostOneBackgroundTask ==
    /\ [](Cardinality({t \in LoopTasks : TaskExists(t)}) <= 1)
    /\ [][(CallMade("start") /\ _sync_task # "none")
              => (task' = task /\ _sync_task' = _sync_task)]_vars
    /\ [][(_sync_task # "none" /\ returned'.call = "stop" /\ _sync_task' # _sync_task)
              => (task'[_sync_task].cancel_requested /\ _sync_task' = "none")]_vars
    /\ [](_sync_task # "none" <=> returned.last_effective = "start")

\* stop_background_sync and then start_background_sync before the event loop
\* ran the cancelled task: the old task is still suspended inside _run_sync,
\* the new one is registered.
C39_Witness ==
    /\ returned.call = "start" /\ returned.last_effective = "start"
    /\ _sync_task = "bg2"
    /\ TaskExists("bg2")
    /\ TaskExists("bg") /\ task["bg"].cancel_requested /\ task["bg"].in_run_sync

====
